---- MODULE Spec2Model ----
(***************************************************************************)
(* A model of the acquisition pipeline of touhou-memory-archive: the       *)
(* persistence layer (crawler/database.py), the per-video enrichment and   *)
(* transactional save (crawler/service.py, crawler/main.py), the HTTP      *)
(* requester and the producer (crawler/bili_api_client.py).                *)
(***************************************************************************)
EXTENDS Integers, Sequences, FiniteSets, TLC

VARIABLES
    db,         \* Database: the connection's view, the committed file, open-transaction flag
    lastOp,     \* ghost: the most recent worker item: its video, its parts, whether its save committed
    lastFetch,  \* ghost: the tag list fetched for that item; whether the item repeats the one before
    req,        \* one invocation of the requester: loop index, requests issued, sleeps, outcome
    wbi,        \* WbiSigner: the key cache, the clock, the most recent call and its result
    orch,       \* the orchestrator: position in its per-uploader steps, index of the uploader
    prod,       \* the producer task get_user_all_videos: position and locals
    queue,      \* the bounded queue of the current uploader
    unfinished, \* the queue's count of items put and not yet acknowledged
    workers,    \* the worker tasks of the current uploader: position and item in hand
    item_failed,    \* ghost: a worker's most recent item of this uploader raised in process_video
    last_user_video_count,  \* DelayManager.last_user_video_count
    remote,     \* ghost: the listing pages and bundles the remote serves in a producer run
    consumed,   \* ghost: the items taken off the queue in a producer run, in order
    tasks,      \* the pool's worker tasks at their suspension points: position, the two sub-fetches
    permits,    \* the value of the semaphore the sub-fetches share
    running,    \* the worker task the event loop is running between two suspension points, 0: none
    pf,         \* one call of _fetch_page_with_retry: loop index, requests, waits, outcome
    batch,      \* one call of fetch_batch_data for one video, and what the worker made of its result
    sv,         \* one call of get_season_videos: page number, videos collected, outcome
    dm          \* DelayManager: its config, and the latest get_user_switch_delay with its draw

storeVars == <<db, lastOp, lastFetch>>

reqVars == <<req, wbi>>

pipeVars == <<orch, prod, queue, unfinished, workers, item_failed, last_user_video_count>>

listingVars == <<remote, consumed>>

poolVars == <<tasks, permits, running>>

fetchVars == <<pf, batch, sv, dm>>

vars == <<db, lastOp, lastFetch, req, wbi, orch, prod, queue, unfinished, workers, item_failed,
          last_user_video_count, remote, consumed, tasks, permits, running, pf, batch, sv, dm>>

----------------------------------------------------------------------------
(* Bounds of the store model *)

MaxAid == 1

Aids == 1..MaxAid

\* the part ids (cid) the remote hands out
Cids == {1, 2}

----------------------------------------------------------------------------
(* Video.touhou_status, crawler/video.py:23 *)

UNCHECKED == 0
AUTO_MATCH == 1
AUTO_NO_MATCH == 2
CONFIRMED_MATCH == 3
CONFIRMED_NO_MATCH == 4

Statuses == {UNCHECKED, AUTO_MATCH, AUTO_NO_MATCH, CONFIRMED_MATCH, CONFIRMED_NO_MATCH}

----------------------------------------------------------------------------
(* Tags.  A tag is a string; it is modelled as a sequence of tokens, each   *)
(* token a piece of text: the discovery marker's opening (a dollar sign,   *)
(* two CJK characters and an opening bracket), its closing (a closing      *)
(* bracket and a caret), a keyword, a comma, a newline, or some other      *)
(* character.  Non-ASCII text is transliterated.                           *)

PRE == "$faxian<<"
SUF == ">>^"
NL == "\n"
COMMA == ","

touhou_keywords ==
    { "dongfangProject", "dongfangproject", "dongfangPROJECT",
      "touhouProject", "touhouproject", "touhouPROJECT",
      "Touhou", "touhou_kanji", "chewan", "ZUN", "Zun", "zun" }

\* the tag lists a tags response may carry
TagResponses ==
    { << <<"x">>, <<"touhou_kanji", "x">> >>,
      << <<PRE, "Touhou", SUF>>, <<"x">> >>,
      << <<"x", COMMA, PRE, "x", SUF>> >> }

RECURSIVE SelectSeqNot(_, _)
\* [tag for tag in tags if not pattern.match(tag)]
\* the regular expression of the discovery marker applied with re.match: the opening,
\* one or more characters other than a newline, the closing, then the end of
\* the string or a final newline.
tag_pattern_match(tag) ==
    LET n == IF Len(tag) > 0 /\ tag[Len(tag)] = NL THEN Len(tag) - 1 ELSE Len(tag)
        Body(m) == /\ m >= 3
                   /\ tag[1] = PRE
                   /\ tag[m] = SUF
                   /\ \A i \in 2..(m - 1) : tag[i] # NL
    IN  Body(Len(tag)) \/ Body(n)

SelectSeqNot(tags, i) ==
    IF i > Len(tags) THEN <<>>
    ELSE IF tag_pattern_match(tags[i]) THEN SelectSeqNot(tags, i + 1)
         ELSE <<tags[i]>> \o SelectSeqNot(tags, i + 1)

KeepAllTags(tags) == tags

filter_tags(tags) == SelectSeqNot(tags, 1)

\* a tag counts only if it is a keyword
ExactTagMatch(tags) ==
    IF \E i \in 1..Len(tags) : Len(tags[i]) = 1 /\ tags[i][1] \in touhou_keywords
    THEN AUTO_MATCH ELSE AUTO_NO_MATCH

\* 1 if any(keyword in tag for tag in tags for keyword in touhou_keywords) else 2
is_touhou(tags) ==
    IF \E i \in 1..Len(tags) : \E j \in 1..Len(tags[i]) : tags[i][j] \in touhou_keywords
    THEN AUTO_MATCH ELSE AUTO_NO_MATCH

RECURSIVE JoinFrom(_, _)
JoinFrom(tags, i) ==
    IF i > Len(tags) THEN <<>>
    ELSE IF i = Len(tags) THEN tags[i]
         ELSE tags[i] \o <<COMMA>> \o JoinFrom(tags, i + 1)

\* ','.join(tags)
join_tags(tags) == JoinFrom(tags, 1)

\* the tags column of a row that no statement has set
NULL == <<"NULL">>

----------------------------------------------------------------------------
(* Database, crawler/database.py.  A table is a function from the keys of  *)
(* its rows; conn is what the connection sees (uncommitted writes          *)
(* included), disk is what is committed.                                   *)

\* INSERT OR REPLACE INTO t ... : the row with that key is replaced whole
Upsert(t, k, row) == (k :> row) @@ t

begin_transaction(d) == [d EXCEPT !.inTx = TRUE]

commit_transaction(d) == [d EXCEPT !.disk = d.conn, !.inTx = FALSE]

CommitInsteadOfRollback(d) == [d EXCEPT !.disk = d.conn, !.inTx = FALSE]

rollback_transaction(d) == [d EXCEPT !.conn = d.disk, !.inTx = FALSE]

\* INSERT OR REPLACE INTO videos (aid, ..., touhou_status): tags is not among the
\* columns, so the replaced row's tags go back to NULL
save_video_info(d, video) ==
    [d EXCEPT !.conn.videos =
        Upsert(@, video.aid, [touhou_status |-> video.touhou_status, tags |-> NULL])]

\* a plain INSERT into a table keyed by a row id of its own
InsertPartNewRow(d, aid, parts, i) ==
    [d EXCEPT !.conn.video_parts =
        Upsert(@, Cardinality(Cids) + 1 + Cardinality(DOMAIN d.conn.video_parts), [aid |-> aid])]

\* one INSERT OR REPLACE INTO video_parts, keyed by cid (of the part's other
\* columns none is read by the pipeline; the row keeps its video)
InsertPart(d, aid, parts, i) ==
    [d EXCEPT !.conn.video_parts = Upsert(@, parts[i], [aid |-> aid])]

RECURSIVE save_parts_upto(_, _, _, _)
\* the first n statements of save_parts_info's loop
save_parts_upto(d, aid, parts, n) ==
    IF n = 0 THEN d
    ELSE InsertPart(save_parts_upto(d, aid, parts, n - 1), aid, parts, n)

save_parts_info(d, aid, parts) == save_parts_upto(d, aid, parts, Len(parts))

\* UPDATE videos SET tags = ? WHERE aid = ?
save_video_tags(d, aid, tags) ==
    IF aid \in DOMAIN d.conn.videos
    THEN [d EXCEPT !.conn.videos[aid].tags = join_tags(tags)]
    ELSE d

\* UPDATE videos SET touhou_status = ? WHERE aid = ?
update_video_status(d, aid, touhou_status) ==
    IF aid \in DOMAIN d.conn.videos
    THEN [d EXCEPT !.conn.videos[aid].touhou_status = touhou_status]
    ELSE d

----------------------------------------------------------------------------
(* save_video, crawler/main.py:48-74.  failAt numbers the statement that    *)
(* raises (0: none): 1 BEGIN, 2 the video upsert, 3..2+n the part upserts,  *)
(* 3+n the tag update, 4+n the status update, 5+n the commit.               *)

save_video(d, video, failAt) ==
    LET n == Len(video.parts)
        status == is_touhou(video.tags)
        d1 == begin_transaction(d)
        d2 == save_video_info(d1, video)
        d3 == save_parts_info(d2, video.aid, video.parts)
        d4 == save_video_tags(d3, video.aid, video.tags)
        d5 == update_video_status(d4, video.aid, status)
    IN  IF failAt = 1 \/ d.inTx
        THEN [db |-> d, ok |-> FALSE]      \* BEGIN raised outside the inner try: no rollback
        ELSE IF failAt = 2 THEN [db |-> rollback_transaction(d1), ok |-> FALSE]
        ELSE IF failAt \in 3..(2 + n)
             THEN [db |-> rollback_transaction(
                             save_parts_upto(d2, video.aid, video.parts, failAt - 3)),
                   ok |-> FALSE]
        ELSE IF failAt = 3 + n THEN [db |-> rollback_transaction(d3), ok |-> FALSE]
        ELSE IF failAt = 4 + n THEN [db |-> rollback_transaction(d4), ok |-> FALSE]
        ELSE IF failAt = 5 + n THEN [db |-> rollback_transaction(d5), ok |-> FALSE]
        ELSE [db |-> commit_transaction(d5), ok |-> TRUE]

----------------------------------------------------------------------------
(* The worker's handling of one video: the two sub-fetches, the filter,    *)
(* the classification and the save.  A sub-fetch that failed on every      *)
(* attempt yields the empty list (fetch_batch_data).                       *)

\* the part lists a parts response may carry: one or more distinct cids, here
\* in increasing order
RECURSIVE PartListsFrom(_)
PartListsFrom(c) ==
    IF c \notin Cids THEN { <<>> }
    ELSE PartListsFrom(c + 1) \cup { <<c>> \o s : s \in PartListsFrom(c + 1) }

PartResponses == PartListsFrom(1) \ { <<>> }

\* what a sub-fetch of one video ends with: the extracted data, or failure on
\* every attempt
FetchOutcomes(responses) ==
    [ok : {TRUE}, data : responses] \cup {[ok |-> FALSE, data |-> <<>>]}

\* fetcher.py:270-289: result_dict[bvid] = data on success, [] for a video whose
\* fetch still failed after the last round
fetch_batch_data(outcome) == IF outcome.ok THEN outcome.data ELSE <<>>

\* service.py:35-44: the enriched Video
Enrich(aid, tagsOut, partsOut) ==
    LET video_tags == fetch_batch_data(tagsOut)
        tags == filter_tags(video_tags)
    IN  [aid |-> aid,
         tags |-> tags,
         parts |-> fetch_batch_data(partsOut),
         touhou_status |-> UNCHECKED]

\* service.py:32-54 with the save of main.py:48-74
process_video(video, failAt) ==
    db' = save_video(db, video, failAt).db

NoOp == [aid |-> 0, parts |-> <<>>, ok |-> FALSE]

NoFetch == [tags |-> <<>>, repeat |-> FALSE]

TagOutcomes == FetchOutcomes(TagResponses)

PartOutcomes == FetchOutcomes(PartResponses)

ProcessVideo ==
    \E aid \in Aids, tagsOut \in TagOutcomes, partsOut \in PartOutcomes :
        \E video \in { Enrich(aid, tagsOut, partsOut) } :
            \E failAt \in 0..(5 + Len(video.parts)) :
                /\ process_video(video, failAt)
                /\ lastOp' = [aid |-> video.aid, parts |-> video.parts,
                              ok |-> save_video(db, video, failAt).ok]
                /\ lastFetch' =
                      IF save_video(db, video, failAt).ok
                      THEN [tags |-> fetch_batch_data(tagsOut),
                            repeat |-> /\ lastOp.ok
                                       /\ lastOp.aid = video.aid
                                       /\ lastOp.parts = video.parts
                                       /\ lastFetch.tags = fetch_batch_data(tagsOut)]
                      ELSE NoFetch

----------------------------------------------------------------------------
(* The HTTP requester: BiliApiClient._make_request                          *)

retry_times == 3

retry_delay == 5

\* What the remote answers to one GET:
\*   "ok"         HTTP 200, envelope code 0, body the extractor accepts
\*   "412"        HTTP 412
\*   "http_error" another HTTP error status (raise_for_status raises)
\*   "transport"  aiohttp.ClientError while sending or reading
\*   "code"       HTTP 200, envelope code != 0
\*   "malformed"  HTTP 200, code 0, body on which the extractor raises
ResponseKinds == {"ok", "412", "http_error", "transport", "code", "malformed"}

ClientErrors == {"http_error", "transport"}

\* decoded bodies of the parts and tags endpoints
Payloads == [api : {"pagelist", "tag"}, data : {"d"}]

Responses == [kind : ResponseKinds, data : Payloads]

\* _fetch_video_page.process_video_page: null entries of vlist are dropped
\* the videos of the page in reverse order
ReversedPage(data) ==
    [total |-> data.count,
     videos |-> LET videos == SelectSeq(data.vlist, LAMBDA video : video.aid # 0)
                IN  [i \in 1..Len(videos) |-> videos[Len(videos) + 1 - i]]]

process_video_page(data) ==
    [total |-> data.count,
     videos |-> SelectSeq(data.vlist, LAMBDA video : video.aid # 0)]

\* Video.model_validate raises on an entry that is no valid video (aid -1)
extractor_accepts(data) ==
    data.api = "arc/search" => \A i \in 1..Len(data.vlist) : data.vlist[i].aid >= 0

\* the caller-supplied extractor, applied to the whole decoded body
process_data(data) ==
    IF data.api = "arc/search" THEN process_video_page(data)
    ELSE <<"extracted", data.api, data.data>>

IdleRequest ==
    [status |-> "idle", attempt |-> 0, requests |-> 0, sleeps |-> <<>>,
     value |-> <<>>, exc |-> "", extracted |-> 0, responses |-> <<>>,
     params |-> <<>>]

\* the call, before the first pass of the loop
StartRequest == [IdleRequest EXCEPT !.status = "running"]

ConstantBackoff(delay, attempt) == delay

backoff(delay, attempt) == delay * (attempt + 1)

BackoffSleep(delay, attempt) == [kind |-> "backoff", secs |-> backoff(delay, attempt)]

PacingSleep == [kind |-> "pacing"]

SkipPacing(st) == st

\* finally: await asyncio.sleep(delay_seconds()), run on every way out of the
\* try statement: return, raise and continue
finally_pacing(st) == [st EXCEPT !.sleeps = Append(@, PacingSleep)]

\* the loop runs one pass too many
OneMoreAttempt(attempt) == attempt < retry_times + 1

\* for attempt in range(retry_times)
in_range(attempt) == attempt < retry_times

\* HTTP 200 with a body that decodes
http_ok(r) == r.kind \in {"ok", "code", "malformed"}

\* the envelope's code is not looked at
CodeNotChecked(r) == TRUE

\* if data.get('code') != 0: raise
code_is_zero(r) == r.kind # "code"

\* One pass of the loop `for attempt in range(retry_times)` on response r.
make_request_attempt(st, r) ==
    LET attempt == st.attempt
        last == ~(attempt < retry_times - 1)
        sent == [st EXCEPT !.requests = @ + 1, !.responses = Append(@, r)]
        retry == [sent EXCEPT
                    !.sleeps = Append(@, BackoffSleep(retry_delay, attempt)),
                    !.attempt = attempt + 1]
        extractor_called == http_ok(r) /\ code_is_zero(r)
        extractor_raised ==
            extractor_called /\ (r.kind = "malformed" \/ ~extractor_accepts(r.data))
        try ==
            IF r.kind = "412"
            THEN \* sleep, continue; after the last pass the loop ends and the
                 \* function returns without a value
                 IF in_range(attempt + 1)
                 THEN retry
                 ELSE [retry EXCEPT !.status = "returned_none"]
            ELSE IF extractor_called /\ ~extractor_raised
            THEN [sent EXCEPT !.status = "returned",
                              !.value = process_data(r.data),
                              !.extracted = @ + 1]
            ELSE IF ~last
            THEN [retry EXCEPT !.extracted = IF extractor_raised THEN @ + 1 ELSE @]
            ELSE [sent EXCEPT !.status = "raised",
                              !.exc = IF r.kind \in ClientErrors THEN "Exception(API request failed)"
                                      ELSE IF r.kind = "code" THEN "Exception(API returned error)"
                                      ELSE "extractor error",
                              !.extracted = IF extractor_raised THEN @ + 1 ELSE @]
    IN  finally_pacing(try)

RECURSIVE make_request_from(_, _, _)

make_request_from(st, responses, i) ==
    IF st.status # "running" \/ i > Len(responses)
    THEN st
    ELSE make_request_from(make_request_attempt(st, responses[i]), responses, i + 1)

\* the whole call on the answers the remote gives to its successive requests
make_request(responses) == make_request_from(StartRequest, responses, 1)

\* ---- the requester as a process: one action per pass of the loop

CallRequester ==
    /\ req.status # "running"
    /\ req' = StartRequest
    /\ UNCHANGED <<wbi, storeVars, pipeVars, listingVars, poolVars, fetchVars>>

RequesterAttempt ==
    /\ req.status = "running"
    /\ \E r \in Responses : req' = make_request_attempt(req, r)
    /\ UNCHANGED <<wbi, storeVars, pipeVars, listingVars, poolVars, fetchVars>>

----------------------------------------------------------------------------
(* The signer: WbiSigner, crawler/wbi_signer.py                             *)

\* the clock runs over MaxDays periods of the cache
MaxDays == 2

CACHE_DURATION == 24 * 60 * 60

\* the instants at which the clock (time.time(), in whole seconds) is read:
\* the start of a period, a second into it and a second before its end
Instants ==
    { d * CACHE_DURATION + e : d \in 0..MaxDays, e \in {0, 1, CACHE_DURATION - 1} }

mixin_key_enc_tab ==
    << 46, 47, 18, 2, 53, 8, 23, 32, 15, 50, 10, 31, 58, 3, 45, 35, 27, 43, 5, 49,
       33, 9, 42, 19, 29, 28, 14, 39, 12, 38, 41, 13, 37, 48, 7, 16, 24, 55, 40,
       61, 26, 17, 0, 1, 60, 51, 30, 4, 22, 25, 54, 21, 56, 59, 6, 63, 57, 62, 11,
       36, 20, 34, 44, 52 >>

\* a string is the sequence of its characters
HexChars ==
    <<"0", "1", "2", "3", "4", "5", "6", "7", "8", "9", "a", "b", "c", "d", "e", "f">>

DigitChars == <<"0", "1", "2", "3", "4", "5", "6", "7", "8", "9">>

\* two keys of 32 hexadecimal characters, as the discovery endpoint names them
KeyA == [i \in 1..32 |-> HexChars[((i - 1) % 16) + 1]]

KeyB == [i \in 1..32 |-> HexChars[((3 * i) % 16) + 1]]

\* (img_key, sub_key)
KeyPairs == { <<KeyA, KeyB>>, <<KeyB, KeyA>> }

\* _cached_keys = None
NoKeys == <<>>

\* reduce(lambda s, i: s + orig[i], mixin_key_enc_tab, '')[:32]
get_mixin_key(orig) == [i \in 1..32 |-> orig[mixin_key_enc_tab[i] + 1]]

\* A dict is the sequence of its items (key, value) in insertion order.  A
\* value is an int or a str.
IntValue(n) == [t |-> "int", v |-> n]

StrValue(chars) == [t |-> "str", v |-> chars]

DictKeys(d) == { d[i][1] : i \in DOMAIN d }

DictGet(d, k) == d[CHOOSE i \in DOMAIN d : d[i][1] = k][2]

\* d[k] = v: an existing key keeps its place
DictSet(d, k, v) ==
    IF k \in DictKeys(d)
    THEN [i \in DOMAIN d |-> IF d[i][1] = k THEN <<k, v>> ELSE d[i]]
    ELSE Append(d, <<k, v>>)

\* the keys the model uses, in the order of str comparison
KeyOrder == <<"keyword", "mid", "pn", "ps", "w_rid", "wts">>

\* dict(sorted(params.items()))
sorted_items(d) ==
    LET present == SelectSeq(KeyOrder, LAMBDA k : k \in DictKeys(d))
    IN  [i \in 1..Len(present) |-> <<present[i], DictGet(d, present[i])>>]

RECURSIVE Digits(_)
Digits(n) ==
    IF n < 10 THEN <<DigitChars[n + 1]>>
    ELSE Append(Digits(n \div 10), DigitChars[(n % 10) + 1])

\* str(v)
str(value) == IF value.t = "int" THEN Digits(value.v) ELSE value.v

\* ''.join(filter(lambda chr: chr not in "!'()*", str(v)))
filter_value(value) ==
    SelectSeq(str(value), LAMBDA chr : chr \notin {"!", "'", "(", ")", "*"})

\* urllib.parse.quote_plus on the characters the model uses
quote_plus(chars) == [i \in 1..Len(chars) |-> IF chars[i] = " " THEN "+" ELSE chars[i]]

RECURSIVE urlencode_from(_, _)
urlencode_from(d, i) ==
    IF i > Len(d) THEN <<>>
    ELSE <<d[i][1], "=">> \o quote_plus(d[i][2].v)
         \o (IF i < Len(d) THEN <<"&">> ELSE <<>>) \o urlencode_from(d, i + 1)

\* urllib.parse.urlencode(params)
urlencode(d) == urlencode_from(d, 1)

\* md5(text).hexdigest(): the digest of a text, kept as a term over that text
md5_hexdigest(text) == <<"md5(">> \o text \o <<")">>

\* WbiSigner.enc_wbi at clock reading now: what it returns, and the dict the
\* caller passed as it is after the call
enc_wbi(params, img_key, sub_key, now) ==
    LET mixin_key == get_mixin_key(img_key \o sub_key)
        curr_time == now
        p1 == DictSet(params, "wts", IntValue(curr_time))      \* params['wts'] = curr_time
        p2 == sorted_items(p1)                                  \* a new dict from here on
        p3 == [i \in DOMAIN p2 |-> <<p2[i][1], StrValue(filter_value(p2[i][2]))>>]
        query == urlencode(p3)
        wbi_sign == md5_hexdigest(query \o mixin_key)
    IN  [caller |-> p1,
         result |-> DictSet(p3, "w_rid", StrValue(wbi_sign))]

\* the parameter maps handed to the signer
ParamMaps ==
    { << <<"mid", IntValue(1)>>, <<"pn", IntValue(1)>>, <<"ps", IntValue(50)>> >>,
      << <<"ps", IntValue(50)>>, <<"mid", IntValue(1)>> >>,
      << <<"mid", IntValue(1)>>, <<"wts", IntValue(1)>> >>,
      << <<"mid", IntValue(1)>>, <<"keyword", StrValue(<<"a", "!", "(", "b", ")", " ", "c">>)>> >> }

\* what the discovery endpoint (x/web-interface/nav) answers
NavAnswers ==
    [kind : {"ok"}, keys : KeyPairs] \cup { [kind |-> "http_error"], [kind |-> "malformed"] }

\* requests_in_period is a ghost: the discovery requests made since the latest
\* successful discovery, that one included, while its keys were less than
\* CACHE_DURATION old
IdleSigner ==
    [cached_keys |-> NoKeys, cached_time |-> 0, now |-> 0,
     op |-> "none", requested |-> FALSE, raised |-> FALSE, ret |-> NoKeys,
     requests_in_period |-> 0,
     arg |-> <<>>, arg_keys |-> NoKeys, caller |-> <<>>, signed |-> <<>>]

CacheValidInclusive(cached_keys, cached_time, current_time) ==
    cached_keys # NoKeys /\ current_time - cached_time <= CACHE_DURATION

\* cls._cached_keys is not None and current_time - cls._cached_time < cls.CACHE_DURATION
cache_valid(cached_keys, cached_time, current_time) ==
    cached_keys # NoKeys /\ current_time - cached_time < CACHE_DURATION

\* WbiSigner.get_wbi_keys on the answer the discovery endpoint would give
get_wbi_keys(s, answer) ==
    LET current_time == s.now
        called == [s EXCEPT !.op = "get_wbi_keys"]
    IN  IF cache_valid(s.cached_keys, s.cached_time, current_time)
        THEN [called EXCEPT !.requested = FALSE, !.raised = FALSE, !.ret = s.cached_keys]
        ELSE IF answer.kind = "ok"
        THEN [called EXCEPT !.requested = TRUE, !.raised = FALSE,
                            !.cached_keys = answer.keys,
                            !.cached_time = current_time,
                            !.ret = answer.keys,
                            !.requests_in_period = 1]
        ELSE \* raise_for_status, or the subscript of a missing field, raises
             [called EXCEPT !.requested = TRUE, !.raised = TRUE, !.ret = NoKeys,
                            !.requests_in_period =
                                IF /\ s.cached_keys # NoKeys
                                   /\ current_time - s.cached_time < CACHE_DURATION
                                THEN @ + 1 ELSE @]

\* ---- the signer as a process

Tick ==
    /\ \E t \in Instants : t > wbi.now /\ wbi' = [wbi EXCEPT !.now = t]
    /\ UNCHANGED <<req, storeVars, pipeVars, listingVars, poolVars, fetchVars>>

GetWbiKeys ==
    /\ \E answer \in NavAnswers : wbi' = get_wbi_keys(wbi, answer)
    /\ UNCHANGED <<req, storeVars, pipeVars, listingVars, poolVars, fetchVars>>

EncWbi ==
    /\ \E params \in ParamMaps, keys \in KeyPairs :
          LET r == enc_wbi(params, keys[1], keys[2], wbi.now)
          IN  wbi' = [wbi EXCEPT !.op = "enc_wbi", !.arg = params, !.arg_keys = keys,
                                 !.caller = r.caller, !.signed = r.result]
    /\ UNCHANGED <<req, storeVars, pipeVars, listingVars, poolVars, fetchVars>>

----------------------------------------------------------------------------
(* The listing: _fetch_video_page, _fetch_page_with_retry, get_season_videos *)

MaxPages == 2

NUsers == 2

NWorkers == 2

QueueSize == 1

Sentinel == 0

page_size == 50

max_retries == 3

base_retry_delay == 30

Seasons == {1}

\* an entry of vlist: a video with its season_id (0: none); aid 0 is a null entry
NullEntry == [aid |-> 0, season_id |-> 0]

Entries == [aid : Aids, season_id : {0} \cup Seasons] \cup {NullEntry}

\* the vlist of a page: empty, one entry, or a null entry before a video
Vlists ==
    {<<>>} \cup { <<e>> : e \in Entries } \cup { <<NullEntry, e>> : e \in Entries \ {NullEntry} }

\* total counts the remote reports: none, and the first count that needs p pages
Totals == {0} \cup { (p - 1) * page_size + 1 : p \in 1..MaxPages }

ListingBodies == [api : {"arc/search"}, vlist : Vlists, count : Totals]

\* what a call of _make_request gives its caller
RequestResult(st) ==
    IF st.status = "returned" THEN [status |-> "returned", value |-> st.value]
    ELSE [status |-> st.status]

\* _fetch_video_page on a remote whose listing body is `body`
FetchVideoPageResults(body) ==
    { RequestResult(make_request(rs)) :
        rs \in [1..retry_times -> [kind : ResponseKinds, data : {body}]] }

RECURSIVE fetch_page_from(_, _)

\* _fetch_page_with_retry on the results of its successive _fetch_video_page calls
fetch_page_from(calls, attempt) ==
    IF ~(attempt < max_retries)
    THEN [status |-> "exhausted"]
    ELSE IF calls[attempt + 1].status = "raised"
         THEN fetch_page_from(calls, attempt + 1)
         ELSE calls[attempt + 1]

fetch_page_with_retry(calls) == fetch_page_from(calls, 0)

PageFetchResults ==
    UNION { { fetch_page_with_retry(calls) :
                calls \in [1..max_retries -> FetchVideoPageResults(body)] } :
            body \in ListingBodies }

\* get_season_videos on the answers to its successive page requests; past the
\* last answer given the remote has no more archives
SeasonPageResponses ==
    [kind : {"ok"}, archives : {<<>>} \cup { <<aid>> : aid \in Aids }, total : 0..MaxPages]
        \cup {[kind |-> "error"]}

RECURSIVE get_season_from(_, _, _)

get_season_from(answers, page_num, all_videos) ==
    IF page_num > Len(answers)
    THEN all_videos
    ELSE LET r == answers[page_num]
         IN  IF r.kind = "error" THEN all_videos
             ELSE IF r.archives = <<>> THEN all_videos
             ELSE IF Len(all_videos \o r.archives) >= r.total THEN all_videos \o r.archives
             ELSE get_season_from(answers, page_num + 1, all_videos \o r.archives)

get_season_videos(answers) == get_season_from(answers, 1, <<>>)

SeasonResults ==
    { get_season_videos(answers) : answers \in [1..MaxPages -> SeasonPageResponses] }

\* ---- get_season_videos as a process: one action per pass of its loop

\* the page numbers the model tells apart; the loop itself has no bound
MaxSeasonPages == 2

\* the largest meta.total the remote reports
MaxSeasonTotal == 2

\* an entry of archives: a video (its aid), -1 an object on which
\* Video.model_validate raises, 0 a null entry
NullArchive == 0
BadArchive == -1

SeasonArchives == { <<>>, <<4>>, <<4, 5>>, <<BadArchive>>, <<4, NullArchive>> }

SeasonErrors == {"http_error", "transport", "code", "malformed"}

\* what the remote answers to one page request of a bundle
SeasonAnswers ==
    [kind : {"ok"}, archives : SeasonArchives, total : 0..MaxSeasonTotal]
        \cup [kind : SeasonErrors, archives : {<<>>}, total : {0}]

NoAnswer == [kind |-> "none", archives |-> <<>>, total |-> 0]

IdleSeason ==
    [status |-> "idle", season_id |-> 0, page_num |-> 0, all_videos |-> <<>>,
     answer |-> NoAnswer, failed |-> FALSE, enumerated |-> <<>>]

\* the call, up to the first page request; enumerated is a ghost, the
\* bundles whose enumeration the producer run has started, in order
start_season(s, season_id) ==
    [s EXCEPT !.status = "running", !.season_id = season_id, !.page_num = 1,
              !.all_videos = <<>>, !.answer = NoAnswer, !.failed = FALSE,
              !.enumerated = Append(@, season_id)]

\* a null entry among the archives is skipped like an entry that does not validate
SkipNullArchives(archives, i, videos) ==
    [videos |-> videos \o SelectSeq(archives, LAMBDA a : a > 0), raised |-> FALSE]

RECURSIVE validate_archives(_, _, _)

\* the loop over archives from entry i on: a null entry raises TypeError at
\* archive_data['mid'] = mid, outside the inner try; an entry that does not
\* validate is skipped
validate_archives(archives, i, videos) ==
    IF i > Len(archives) THEN [videos |-> videos, raised |-> FALSE]
    ELSE IF archives[i] = NullArchive THEN [videos |-> videos, raised |-> TRUE]
    ELSE IF archives[i] = BadArchive THEN validate_archives(archives, i + 1, videos)
    ELSE validate_archives(archives, i + 1, Append(videos, archives[i]))

\* the loop stops after the first page whatever the total
StopAfterFirstPage(collected, total_videos) == TRUE

\* if len(all_videos) >= total_videos: break
season_complete(collected, total_videos) == collected >= total_videos

\* One pass of `while True`: r is the remote's answer to the page request.
season_page(s, r) ==
    LET answered == [s EXCEPT !.answer = r]
        parsed == validate_archives(r.archives, 1, s.all_videos)
    IN  IF r.kind # "ok"
        THEN \* raise_for_status, the transport, response.json or the code
             \* check raised: except Exception: return all_videos
             [answered EXCEPT !.status = "returned", !.failed = TRUE]
        ELSE IF r.archives = <<>>
        THEN [answered EXCEPT !.status = "returned"]
        ELSE IF parsed.raised
        THEN [answered EXCEPT !.status = "returned", !.failed = TRUE,
                              !.all_videos = parsed.videos]
        ELSE IF season_complete(Len(parsed.videos), r.total)
        THEN [answered EXCEPT !.status = "returned", !.all_videos = parsed.videos]
        ELSE [answered EXCEPT !.all_videos = parsed.videos,
                              !.page_num = IF @ < MaxSeasonPages THEN @ + 1 ELSE @]

\* ---- _fetch_page_with_retry as a process: one action per pass of its loop

\* the listing body the remote has for the page: one video, one page
PageBody == [api |-> "arc/search", vlist |-> << [aid |-> 1, season_id |-> 0] >>, count |-> 1]

IdlePageFetch ==
    [status |-> "idle", attempt |-> 0, tries |-> 0, requests |-> 0, waits |-> <<>>,
     value |-> <<>>, last_kinds |-> <<>>, first |-> "none"]

\* the call, before the first pass of the loop
StartPageFetch == [IdlePageFetch EXCEPT !.status = "running"]

\* the same wait after every failed try
ConstantLongWait(attempt) == base_retry_delay

\* retry_delay = base_retry_delay * (attempt + 1)
long_wait(attempt) == base_retry_delay * (attempt + 1)

\* what get_wbi_keys raises into _make_request: the HTTPError of
\* raise_for_status or the error of the subscript of a missing field
KeyDiscoveryError == "key discovery error"

\* One pass of `for attempt in range(max_retries)`: st is the requester's
\* invocation made by _fetch_video_page in this pass, at its end.
fetch_page_attempt(p, st) ==
    LET attempt == p.attempt
        tried == [p EXCEPT !.tries = @ + 1,
                           !.requests = @ + st.requests,
                           !.last_kinds = [i \in 1..Len(st.responses) |-> st.responses[i].kind],
                           !.first = IF p.tries > 0 THEN @
                                     ELSE IF st.status # "raised" THEN "ended"
                                     ELSE IF st.exc = KeyDiscoveryError THEN KeyDiscoveryError
                                     ELSE "request"]
    IN  IF st.status = "raised"
        THEN \* except Exception: wait if a try is left; past the loop, raise
             LET waited == IF attempt < max_retries - 1
                           THEN [tried EXCEPT !.waits = Append(@, long_wait(attempt))]
                           ELSE tried
             IN  IF attempt + 1 < max_retries
                 THEN [waited EXCEPT !.attempt = attempt + 1]
                 ELSE [waited EXCEPT !.status = "exhausted"]
        ELSE IF st.status = "returned"
        THEN [tried EXCEPT !.status = "returned", !.value = st.value]
        ELSE \* the requester returned None, and so does the page fetch
             [tried EXCEPT !.status = "returned_none"]

\* what the call gives the producer
PageResult(p) ==
    IF p.status = "returned" THEN [status |-> "returned", value |-> p.value]
    ELSE [status |-> p.status]

\* ---- fetch_batch_data for the one video a worker handles, round by round

\* BATCH_FETCH_CONFIG['retry_times']: the rounds after the first
batch_retry_times == 1

\* what result_dict holds for the video: a list, or None
NoEntry == [none |-> FALSE, data |-> <<>>]

\* one of the two sub-fetches before its first round
PendingSub == [st |-> "pending", round |-> 0, entry |-> NoEntry, succeeded |-> FALSE]

IdleBatch ==
    [status |-> "idle", aid |-> 0, tags |-> PendingSub, parts |-> PendingSub,
     bodies |-> [tags |-> <<>>, parts |-> <<>>]]

\* for attempt in range(config['retry_times'] + 1)
round_in_range(attempt) == attempt < batch_retry_times + 1

\* One round of fetch_batch_data with failed_videos = [video]: st is the
\* requester's invocation made by fetch_with_semaphore, at its end.
fetch_batch_round(sub, st) ==
    IF st.status = "raised"
    THEN \* (bvid, None, False): the video stays in failed_videos
         IF round_in_range(sub.round + 1)
         THEN [sub EXCEPT !.round = @ + 1]
         ELSE [sub EXCEPT !.round = @ + 1, !.st = "done",
                          !.entry = [none |-> FALSE, data |-> <<>>]]
    ELSE IF st.status = "returned"
    THEN \* (bvid, data, True): result_dict[bvid] = data
         [sub EXCEPT !.round = @ + 1, !.st = "done", !.succeeded = TRUE,
                     !.entry = [none |-> FALSE, data |-> st.value[3]]]
    ELSE \* the requester returned None: (bvid, None, True)
         [sub EXCEPT !.round = @ + 1, !.st = "done",
                     !.entry = [none |-> TRUE, data |-> <<>>]]

\* service.py:41-44 and the save: iterating None raises TypeError, in the
\* filter for the tags, in save_parts_info's loop for the parts
process_fetched(d, aid, tags_entry, parts_entry) ==
    IF tags_entry.none
    THEN [db |-> d, ok |-> FALSE]
    ELSE IF parts_entry.none
    THEN [db |-> rollback_transaction(
                    save_video_info(begin_transaction(d),
                                    [aid |-> aid, touhou_status |-> UNCHECKED])),
          ok |-> FALSE]
    ELSE save_video(d, [aid |-> aid,
                        tags |-> filter_tags(tags_entry.data),
                        parts |-> parts_entry.data,
                        touhou_status |-> UNCHECKED], 0)

----------------------------------------------------------------------------
(* The inter-uploader delay: DelayManager.get_user_switch_delay.  Delays    *)
(* are in milliseconds, JITTER_RATIO is in hundredths.                      *)

\* the video counts update_video_count is called with
MaxCount == 4

\* random() is one of 0, 1/DrawSteps, ..., 1
DrawSteps == 4

\* USER_SWITCH_CONFIG: delays and ratios that are not negative
Configs ==
    [BASE_DELAY : {0, 2000, 5000}, MAX_DELAY : {3000, 10000},
     FACTOR_PER_VIDEO : {0, 2000, 5000}, JITTER_RATIO : {0, 20, 150}]

min(a, b) == IF a <= b THEN a ELSE b

max(a, b) == IF a >= b THEN a ELSE b

\* random.uniform(a, b): a + (b - a) * random()
uniform(a, b, draw) == a + ((b - a) * draw) \div DrawSteps

\* the upper limit is not applied
UncappedDelay(config, count) == config.BASE_DELAY + count * config.FACTOR_PER_VIDEO

\* capped_delay = min(BASE_DELAY + count * FACTOR_PER_VIDEO, MAX_DELAY)
capped_delay(config, count) ==
    LET dynamic_delay == count * config.FACTOR_PER_VIDEO
        base_plus_dynamic == config.BASE_DELAY + dynamic_delay
    IN  min(base_plus_dynamic, config.MAX_DELAY)

\* jitter = capped_delay * JITTER_RATIO
jitter_of(config, capped) == (capped * config.JITTER_RATIO) \div 100

IdleDelay ==
    [config |-> [BASE_DELAY |-> 0, MAX_DELAY |-> 0, FACTOR_PER_VIDEO |-> 0, JITTER_RATIO |-> 0],
     op |-> "none", count |-> 0, j |-> 0, final_delay |-> 0]

\* get_user_switch_delay with the manager's count and one draw of random()
get_user_switch_delay(d, count, draw) ==
    LET capped == capped_delay(d.config, count)
        jitter == jitter_of(d.config, capped)
        j == uniform(-jitter, jitter, draw)
    IN  [d EXCEPT !.op = "get_user_switch_delay", !.count = count, !.j = j,
                  !.final_delay = max(0, capped + j)]

FetchIdle == pf = IdlePageFetch /\ batch = IdleBatch /\ sv = IdleSeason /\ dm = IdleDelay

----------------------------------------------------------------------------
(* The producer: BiliApiClient.get_user_all_videos                          *)

NoVideo == [aid |-> 0, season_id |-> 0]

IdleProducer ==
    [pc |-> "idle", page_num |-> 0, total_videos |-> -1, total_pages |-> 0, pending |-> <<>>,
     puts |-> <<>>, processed_seasons |-> {}, video |-> NoVideo, end |-> "",
     requested |-> <<>>, page_sleeps |-> 0]

\* the call, up to the first page request
StartProducer == [IdleProducer EXCEPT !.pc = "fetch", !.page_num = 1]

RECURSIVE advance(_)

\* every entry that starts no bundle request is put, bundle or not
AdvancePutSeen(p) ==
    IF p.pending = <<>>
    THEN IF p.page_num < p.total_pages
         THEN [p EXCEPT !.pc = "fetch", !.page_num = @ + 1]
         ELSE [p EXCEPT !.pc = "returned", !.end = "complete"]
    ELSE LET video == Head(p.pending)
             rest == Tail(p.pending)
         IN  IF video.season_id # 0 /\ video.season_id \notin p.processed_seasons
             THEN [p EXCEPT !.pc = "season", !.video = video, !.pending = rest,
                            !.processed_seasons = @ \cup {video.season_id}]
             ELSE [p EXCEPT !.pc = "put", !.pending = rest, !.puts = <<video.aid>>]

\* a bundle is not entered in the seen set when its enumeration starts
AdvanceForgetSeen(p) ==
    IF p.pending = <<>>
    THEN IF p.page_num < p.total_pages
         THEN [p EXCEPT !.pc = "fetch", !.page_num = @ + 1]
         ELSE [p EXCEPT !.pc = "returned", !.end = "complete"]
    ELSE LET video == Head(p.pending)
             rest == Tail(p.pending)
         IN  IF video.season_id # 0
             THEN [p EXCEPT !.pc = "season", !.video = video, !.pending = rest]
             ELSE [p EXCEPT !.pc = "put", !.pending = rest, !.puts = <<video.aid>>]

\* The producer's code between two suspension points: the loop over the videos
\* of the current page up to the next bundle request or queue.put, and past
\* the end of the page the step to the next page or the return.
advance(p) ==
    IF p.pending = <<>>
    THEN IF p.page_num < p.total_pages
         THEN [p EXCEPT !.pc = "fetch", !.page_num = @ + 1]
         ELSE [p EXCEPT !.pc = "returned", !.end = "complete"]
    ELSE LET video == Head(p.pending)
             rest == Tail(p.pending)
         IN  IF video.season_id # 0 /\ video.season_id \notin p.processed_seasons
             THEN [p EXCEPT !.pc = "season", !.video = video, !.pending = rest,
                            !.processed_seasons = @ \cup {video.season_id}]
             ELSE IF video.season_id = 0
             THEN [p EXCEPT !.pc = "put", !.pending = rest, !.puts = <<video.aid>>]
             ELSE advance([p EXCEPT !.pending = rest])

\* one page more than the full pages
PagesPlusOne(total_videos) == total_videos \div page_size + 1

total_pages_of(total_videos) == (total_videos + page_size - 1) \div page_size

\* the inter-page sleep is taken before every page
SleepBeforeEveryPage(page_num) == 1

\* await asyncio.sleep(PRODUCER_PAGE_DELAY_SECONDS) stands in the loop over
\* the pages from 2 on, before the fetch
inter_page_sleeps(page_num) == IF page_num >= 2 THEN 1 ELSE 0

\* the producer up to its call of _fetch_page_with_retry for its page;
\* requested and page_sleeps are ghosts: the page numbers passed to the call
\* and the inter-page sleeps taken, in this run
request_page(p) ==
    [p EXCEPT !.page_sleeps = @ + inter_page_sleeps(p.page_num),
              !.requested = Append(@, p.page_num)]

PropagateExhausted(p) == [p EXCEPT !.pc = "raised", !.end = "exhausted"]

\* except PageFetchExhaustedError on a page after the first: return
on_page_exhausted(p) == [p EXCEPT !.pc = "returned", !.end = "exhausted"]

\* lines 192-213 for page 1, lines 220-236 for a later page
producer_after_fetch(called, res) ==
    LET p == request_page(called)
    IN
    IF p.page_num = 1
    THEN IF res.status = "returned"
         THEN advance([p EXCEPT !.total_videos = res.value.total,
                                !.total_pages = total_pages_of(res.value.total),
                                !.pending = res.value.videos])
         ELSE [p EXCEPT !.pc = "returned", !.end = "page1_failed"]
    ELSE IF res.status = "returned"
         THEN advance([p EXCEPT !.pending = res.value.videos])
         ELSE IF res.status = "exhausted"
         THEN on_page_exhausted(p)
         ELSE \* the page is None: page_result.get raises AttributeError,
              \* which no except clause of the loop catches
              [p EXCEPT !.pc = "raised", !.end = "AttributeError"]

ProducerFetchPage ==
    /\ prod.pc = "fetch"
    /\ \E res \in PageFetchResults :
          /\ prod' = producer_after_fetch(prod, res)
          /\ last_user_video_count' =
                IF prod.page_num = 1 /\ res.status = "returned"
                THEN res.value.total
                ELSE last_user_video_count
    /\ UNCHANGED <<orch, queue, unfinished, workers, item_failed, storeVars, reqVars, listingVars, poolVars, fetchVars>>

ProducerSeason ==
    /\ prod.pc = "season"
    /\ \E season_videos \in SeasonResults :
          prod' = [prod EXCEPT !.pc = "put", !.puts = season_videos]
    /\ UNCHANGED <<orch, queue, unfinished, workers, item_failed, last_user_video_count,
                   storeVars, reqVars, listingVars, poolVars, fetchVars>>

\* the queue takes any number of items
NeverFull(q) == FALSE

\* asyncio.Queue.full() of a queue made with maxsize = QueueSize: put waits
\* while it holds
full(q) == Len(q) >= QueueSize

\* the loop of queue.put over the videos of a bundle or the one video of a
\* plain entry; a bundle that gave no video puts nothing
ProducerPut ==
    /\ prod.pc = "put"
    /\ IF prod.puts = <<>>
       THEN /\ prod' = advance([prod EXCEPT !.video = NoVideo])
            /\ UNCHANGED <<queue, unfinished>>
       ELSE /\ ~full(queue)
            /\ queue' = Append(queue, Head(prod.puts))
            /\ unfinished' = unfinished + 1
            /\ prod' = IF Tail(prod.puts) = <<>>
                       THEN advance([prod EXCEPT !.puts = <<>>, !.video = NoVideo])
                       ELSE [prod EXCEPT !.puts = Tail(@)]
    /\ UNCHANGED <<orch, workers, item_failed, last_user_video_count, storeVars, reqVars, listingVars, poolVars, fetchVars>>

----------------------------------------------------------------------------
(* A producer run against a remote that answers every request with HTTP    *)
(* 200 and code 0: the listing pages and the bundles it serves are fixed   *)
(* for the run.                                                             *)

\* a non-null entry on which Video.model_validate raises
BadEntry == [aid |-> -1, season_id |-> 0]

\* the vlist of a served page: empty; one plain video; a plain video followed
\* by two videos of bundle 1; a null entry before a video; an entry that does
\* not parse between two videos; one video of bundle 1
ListedVlists ==
    { <<>>,
      << [aid |-> 1, season_id |-> 0] >>,
      << [aid |-> 1, season_id |-> 0], [aid |-> 2, season_id |-> 1], [aid |-> 3, season_id |-> 1] >>,
      << NullEntry, [aid |-> 2, season_id |-> 0] >>,
      << [aid |-> 1, season_id |-> 0], BadEntry, [aid |-> 2, season_id |-> 0] >>,
      << [aid |-> 3, season_id |-> 1] >> }

\* the archives of a bundle
BundleArchives == { <<>>, <<4>>, <<4, 5>> }

Remotes ==
    UNION { [pages : [1..n -> ListedVlists], bundles : [Seasons -> BundleArchives]] :
            n \in 1..MaxPages }

NoRemote == [pages |-> <<>>, bundles |-> <<>>]

\* data.page.count: the pages before the last are full
remote_count(r) == (Len(r.pages) - 1) * page_size + Len(r.pages[Len(r.pages)])

\* the decoded body of the listing request for page pn
remote_body(r, pn) == [api |-> "arc/search", vlist |-> r.pages[pn], count |-> remote_count(r)]

\* _fetch_page_with_retry when every request is answered with this body
served_page(body) ==
    fetch_page_with_retry(
        [a \in 1..max_retries |->
            RequestResult(make_request([i \in 1..retry_times |-> [kind |-> "ok", data |-> body]]))])

\* get_season_videos when the one page of the bundle is served
served_season(r, season_id) ==
    get_season_videos(<< [kind |-> "ok", archives |-> r.bundles[season_id],
                          total |-> Len(r.bundles[season_id])] >>)

ListingFetchPage ==
    /\ remote # NoRemote
    /\ prod.pc = "fetch"
    /\ LET res == served_page(remote_body(remote, prod.page_num))
       IN  /\ prod' = producer_after_fetch(prod, res)
           /\ last_user_video_count' =
                 IF prod.page_num = 1 /\ res.status = "returned"
                 THEN res.value.total
                 ELSE last_user_video_count
    /\ UNCHANGED <<orch, queue, unfinished, workers, item_failed, storeVars, reqVars, listingVars, poolVars, fetchVars>>

ListingSeason ==
    /\ remote # NoRemote
    /\ prod.pc = "season"
    /\ prod' = [prod EXCEPT !.pc = "put", !.puts = served_season(remote, prod.video.season_id)]
    /\ UNCHANGED <<orch, queue, unfinished, workers, item_failed, last_user_video_count,
                   storeVars, reqVars, listingVars, poolVars, fetchVars>>

\* a worker takes the next item off the queue
Consume ==
    /\ remote # NoRemote
    /\ queue # <<>>
    /\ consumed' = Append(consumed, Head(queue))
    /\ queue' = Tail(queue)
    /\ UNCHANGED <<orch, prod, unfinished, workers, item_failed, last_user_video_count,
                   remote, storeVars, reqVars, poolVars, fetchVars>>

----------------------------------------------------------------------------
(* A producer run in which the bundle requests are answered in any way:   *)
(* the listing pages are served as above, each page request of a bundle   *)
(* gets any answer.                                                        *)

SeasonStart ==
    /\ remote # NoRemote
    /\ prod.pc = "season"
    /\ sv.status = "idle"
    /\ sv' = start_season(sv, prod.video.season_id)
    /\ UNCHANGED <<pf, batch, dm, storeVars, reqVars, pipeVars, listingVars, poolVars>>

SeasonRequest ==
    /\ sv.status = "running"
    /\ \E r \in SeasonAnswers : sv' = season_page(sv, r)
    /\ UNCHANGED <<pf, batch, dm, storeVars, reqVars, pipeVars, listingVars, poolVars>>

\* season_videos = await self.get_season_videos(...): the producer goes on
\* to put what the call returned
SeasonToProducer ==
    /\ prod.pc = "season"
    /\ sv.status = "returned"
    /\ prod' = [prod EXCEPT !.pc = "put", !.puts = sv.all_videos]
    /\ sv' = [sv EXCEPT !.status = "idle"]
    /\ UNCHANGED <<orch, queue, unfinished, workers, item_failed, last_user_video_count,
                   pf, batch, dm, storeVars, reqVars, listingVars, poolVars>>

----------------------------------------------------------------------------
(* The fetch of page 1, try by try, and the producer's step on its outcome  *)

PageTry ==
    /\ pf.status = "running"
    /\ \E rs \in [1..retry_times -> [kind : ResponseKinds, data : {PageBody}]] :
          pf' = fetch_page_attempt(pf, make_request(rs))
    /\ UNCHANGED <<batch, sv, dm, storeVars, reqVars, pipeVars, listingVars, poolVars>>

PageToProducer ==
    /\ pf.status \notin {"idle", "running"}
    /\ prod.pc = "fetch"
    /\ prod' = producer_after_fetch(prod, PageResult(pf))
    /\ last_user_video_count' =
          IF pf.status = "returned" THEN pf.value.total ELSE last_user_video_count
    /\ UNCHANGED <<orch, queue, unfinished, workers, item_failed,
                   storeVars, reqVars, listingVars, poolVars, fetchVars>>

----------------------------------------------------------------------------
(* Claims about the listing run                                            *)

\* every item put on the queue so far, in the order of the puts
Enqueued == consumed \o queue

IsPrefix(a, b) == Len(a) <= Len(b) /\ \A i \in 1..Len(a) : a[i] = b[i]

RECURSIVE EntriesUpTo(_, _)
\* the entries of the first n served pages, page after page
EntriesUpTo(r, n) == IF n = 0 THEN <<>> ELSE EntriesUpTo(r, n - 1) \o r.pages[n]

\* neither null nor unparsable
Parses(entry) == entry.aid > 0

RECURSIVE Expansion(_, _, _)
\* what the entries are to put on the queue, given the bundles seen before them
Expansion(entries, seen, bundles) ==
    IF entries = <<>> THEN <<>>
    ELSE LET entry == Head(entries)
             rest == Tail(entries)
         IN  IF entry.season_id = 0
             THEN <<entry.aid>> \o Expansion(rest, seen, bundles)
             ELSE IF entry.season_id \in seen
             THEN Expansion(rest, seen, bundles)
             ELSE bundles[entry.season_id]
                      \o Expansion(rest, seen \cup {entry.season_id}, bundles)

\* the queue contents due after the first n pages, bad entries left out
DueAfter(r, n) == Expansion(SelectSeq(EntriesUpTo(r, n), Parses), {}, r.bundles)

\* the number of pages the listing announces
PagesAnnounced(r) == (remote_count(r) + page_size - 1) \div page_size

Count(entries, Test(_)) == Len(SelectSeq(entries, Test))

C19_BadEntriesSkipped ==
    prod.pc = "returned" =>
        /\ prod.end = "complete"
        /\ Enqueued = DueAfter(remote, PagesAnnounced(remote))

\* C20: the items are put in page order and, within a page, in source order;
\* when page k+1 is requested every item of the pages up to k has been put.
C20_PageOrder ==
    /\ IsPrefix(Enqueued, DueAfter(remote, PagesAnnounced(remote)))
    /\ prod.pc = "fetch" => Enqueued = DueAfter(remote, prod.page_num - 1)

C20_Witness ==
    /\ prod.end = "complete"
    /\ prod.page_num = 2
    /\ DueAfter(remote, 1) # <<>>
    /\ Len(Enqueued) > Len(DueAfter(remote, 1))
    /\ \E i, j \in 1..Len(Enqueued) : Enqueued[i] # Enqueued[j]

----------------------------------------------------------------------------
(* The worker pool: per item, VideoService.process_video, then the          *)
(* acknowledgement                                                          *)

Workers == 1..NWorkers

NoItem == [pc |-> "none", item |-> Sentinel]

Waiting == [pc |-> "get", item |-> Sentinel]

AllExited == \A w \in Workers : workers[w].pc = "exited"

Busy == { w \in Workers : workers[w].pc = "busy" }

Exited == { w \in Workers : workers[w].pc = "exited" }

NoTaskDone(n) == n

task_done(n) == n - 1

\* the sub-fetches of one item: the tags fetch of a video without tags
\* succeeds or fails on every attempt, the parts fetch fails on every attempt
ItemTagOutcomes == {[ok |-> TRUE, data |-> <<>>], [ok |-> FALSE, data |-> <<>>]}

ItemPartOutcomes == {[ok |-> FALSE, data |-> <<>>]}

\* the statement of the save that fails, if one does: none, or the video upsert
ItemFailures == {0, 2}

WorkerGet(w) ==
    /\ workers[w].pc = "get"
    /\ queue # <<>>
    /\ queue' = Tail(queue)
    /\ workers' = [workers EXCEPT ![w] =
                      IF Head(queue) = Sentinel
                      THEN [pc |-> "exited", item |-> Sentinel]
                      ELSE [pc |-> "busy", item |-> Head(queue)]]
    /\ UNCHANGED <<orch, prod, unfinished, item_failed, last_user_video_count, storeVars, reqVars, listingVars, poolVars, fetchVars>>

WorkerProcess(w) ==
    /\ workers[w].pc = "busy"
    /\ \E tagsOut \in ItemTagOutcomes, partsOut \in ItemPartOutcomes, failAt \in ItemFailures :
          \E video \in { Enrich(workers[w].item, tagsOut, partsOut) } :
              /\ process_video(video, failAt)
              /\ item_failed' = ~save_video(db, video, failAt).ok
    /\ unfinished' = task_done(unfinished)
    /\ workers' = [workers EXCEPT ![w] = Waiting]
    /\ UNCHANGED <<orch, prod, queue, last_user_video_count, lastOp, lastFetch, reqVars, listingVars, poolVars, fetchVars>>

----------------------------------------------------------------------------
(* The pool at its suspension points.  The event loop runs one task at a   *)
(* time and switches only where a task awaits.  A worker's item is the two *)
(* sub-fetches, each a fetch_batch_data call whose rounds take a permit of *)
(* the shared semaphore around the request, and then the save, statement   *)
(* by statement.                                                            *)

SubKinds == {"tags", "parts"}

\* a sub-fetch: "wait" in the sleep before a round and before `async with
\* api_semaphore`, "inflight" inside it, "done" after the return
NoSub == [st |-> "done", round |-> 0]

IdleTask == [pc |-> "idle", tags |-> NoSub, parts |-> NoSub]

PoolIdle ==
    /\ tasks = [w \in Workers |-> IdleTask]
    /\ permits = NWorkers
    /\ running = 0

\* the video a pool worker has in hand
PoolItem(w) == ((w - 1) % MaxAid) + 1

PoolVideo(w) ==
    Enrich(PoolItem(w), [ok |-> TRUE, data |-> << <<"Touhou">> >>], [ok |-> TRUE, data |-> <<1>>])

\* asyncio.Semaphore: acquire goes through while the value is positive
AlwaysAcquire(value) == TRUE

can_acquire(value) == value > 0

NoRelease(value) == value

\* leaving `async with api_semaphore`, by return from the try or from the except
sem_release(value) == value + 1

InFlight ==
    { <<w, k>> \in Workers \X SubKinds : tasks[w][k].st = "inflight" }

\* the statements of save_video, in order
Statements == <<"begin", "video", "parts", "tags", "status", "commit">>

\* an await stands between every two statements of the save
YieldsAfterEveryStatement(stmt) == TRUE

\* the save holds no await: the task yields only once it is over
yields_after(stmt) == stmt = "commit"

\* the statement after stmt
next_statement(stmt) ==
    LET i == CHOOSE i \in 1..Len(Statements) : Statements[i] = stmt
    IN  IF i < Len(Statements) THEN Statements[i + 1] ELSE "idle"

\* one statement of save_video on the connection
execute(d, stmt, video) ==
    IF stmt = "begin" THEN begin_transaction(d)
    ELSE IF stmt = "video" THEN save_video_info(d, video)
    ELSE IF stmt = "parts" THEN save_parts_info(d, video.aid, video.parts)
    ELSE IF stmt = "tags" THEN save_video_tags(d, video.aid, video.tags)
    ELSE IF stmt = "status" THEN update_video_status(d, video.aid, is_touhou(video.tags))
    ELSE commit_transaction(d)

\* process_video up to the gather: both sub-fetches are started
PoolStart(w) ==
    /\ running = 0
    /\ tasks[w].pc = "idle"
    /\ tasks' = [tasks EXCEPT ![w] =
                    [pc |-> "fetching",
                     tags |-> [st |-> "wait", round |-> 0],
                     parts |-> [st |-> "wait", round |-> 0]]]
    /\ UNCHANGED <<permits, running, storeVars, reqVars, pipeVars, listingVars, fetchVars>>

SubAcquire(w, k) ==
    /\ running = 0
    /\ tasks[w][k].st = "wait"
    /\ can_acquire(permits)
    /\ permits' = permits - 1
    /\ tasks' = [tasks EXCEPT ![w][k].st = "inflight"]
    /\ UNCHANGED <<running, storeVars, reqVars, pipeVars, listingVars, fetchVars>>

\* make_api_request returned or raised; the except of fetch_with_semaphore
\* turns a raise into a failed entry, and the round is over: the permit goes
\* back, and a failed video goes into the next round while there is one
SubEnd(w, k) ==
    /\ running = 0
    /\ tasks[w][k].st = "inflight"
    /\ permits' = sem_release(permits)
    /\ \E ok \in BOOLEAN :
          tasks' = [tasks EXCEPT ![w][k] =
                       IF ~ok /\ @.round < batch_retry_times
                       THEN [@ EXCEPT !.st = "wait", !.round = @ + 1]
                       ELSE [@ EXCEPT !.st = "done"]]
    /\ UNCHANGED <<running, storeVars, reqVars, pipeVars, listingVars, fetchVars>>

\* the gather is over: the worker task is resumed and reaches the save
PoolResume(w) ==
    /\ running = 0
    /\ tasks[w].pc = "fetching"
    /\ tasks[w].tags.st = "done" /\ tasks[w].parts.st = "done"
    /\ tasks' = [tasks EXCEPT ![w].pc = "begin"]
    /\ running' = w
    /\ UNCHANGED <<permits, storeVars, reqVars, pipeVars, listingVars, fetchVars>>

\* one statement of the save; a statement that raises ends the save, after a
\* rollback unless it was BEGIN
PoolStatement(w) ==
    /\ running \in {0, w}
    /\ tasks[w].pc \notin {"idle", "fetching"}
    /\ LET stmt == tasks[w].pc
       IN  \E raises \in BOOLEAN :
              IF raises \/ (stmt = "begin" /\ db.inTx)
              THEN /\ db' = IF stmt = "begin" THEN db ELSE rollback_transaction(db)
                   /\ tasks' = [tasks EXCEPT ![w].pc = "idle"]
                   /\ running' = 0
              ELSE /\ db' = execute(db, stmt, PoolVideo(w))
                   /\ tasks' = [tasks EXCEPT ![w].pc = next_statement(stmt)]
                   /\ running' = IF yields_after(stmt) THEN 0 ELSE w
    /\ UNCHANGED <<permits, lastOp, lastFetch, reqVars, pipeVars, listingVars, fetchVars>>

----------------------------------------------------------------------------
(* The two sub-fetches of one video and the worker's step on their result *)

BatchRound(k) ==
    /\ batch.status = "fetching"
    /\ batch[k].st = "pending"
    /\ \E rs \in [1..retry_times ->
                    [kind : ResponseKinds, data : {[api |-> k, data |-> batch.bodies[k]]}]] :
          batch' = [batch EXCEPT ![k] = fetch_batch_round(@, make_request(rs))]
    /\ UNCHANGED <<pf, sv, dm, storeVars, reqVars, pipeVars, listingVars, poolVars>>

BatchProcess ==
    /\ batch.status = "fetching"
    /\ batch.tags.st = "done"
    /\ batch.parts.st = "done"
    /\ LET res == process_fetched(db, batch.aid, batch.tags.entry, batch.parts.entry)
       IN  /\ db' = res.db
           /\ batch' = [batch EXCEPT !.status = IF res.ok THEN "saved" ELSE "failed"]
    /\ UNCHANGED <<pf, sv, dm, lastOp, lastFetch, reqVars, pipeVars, listingVars, poolVars>>

----------------------------------------------------------------------------
(* The page fetch with its signed requests: _fetch_page_with_retry over    *)
(* _fetch_video_page over _make_request(need_wbi=True), on one clock       *)

\* params of _fetch_video_page: mid, pn, ps
PageParams == << <<"mid", IntValue(1)>>, <<"pn", IntValue(1)>>, <<"ps", IntValue(50)>> >>

\* the signature is stamped with the time the keys were cached
SignAtCacheTime(s, answer, params) ==
    LET got == get_wbi_keys(s, answer)
    IN  IF got.raised
        THEN [wbi |-> got,
              req |-> [StartRequest EXCEPT !.status = "raised", !.exc = KeyDiscoveryError]]
        ELSE [wbi |-> got,
              req |-> [StartRequest EXCEPT
                          !.params = enc_wbi(params, got.ret[1], got.ret[2],
                                             got.cached_time).result]]

\* if need_wbi: the keys, then params = enc_wbi(params, img_key, sub_key),
\* ahead of the loop and outside its try: what get_wbi_keys raises leaves
\* _make_request at once
sign_on_entry(s, answer, params) ==
    LET got == get_wbi_keys(s, answer)
    IN  IF got.raised
        THEN [wbi |-> got,
              req |-> [StartRequest EXCEPT !.status = "raised", !.exc = KeyDiscoveryError]]
        ELSE [wbi |-> got,
              req |-> [StartRequest EXCEPT
                          !.params = enc_wbi(params, got.ret[1], got.ret[2], got.now).result]]

RECURSIVE BackoffSecs(_, _)
\* the seconds of the backoff sleeps among sleeps[i..]
BackoffSecs(sleeps, i) ==
    IF i > Len(sleeps) THEN 0
    ELSE (IF sleeps[i].kind = "backoff" THEN sleeps[i].secs ELSE 0) + BackoffSecs(sleeps, i + 1)

\* _fetch_video_page calls _make_request: keys and signature
SignedCall ==
    /\ pf.status = "running"
    /\ req.status = "idle"
    /\ \E answer \in NavAnswers :
          LET r == sign_on_entry(wbi, answer, PageParams)
          IN  wbi' = r.wbi /\ req' = r.req
    /\ UNCHANGED <<storeVars, pipeVars, listingVars, poolVars, fetchVars>>

\* the pacing sleep, the backoff sleep or the remote takes a day longer
SignedLate ==
    /\ pf.status = "running"
    /\ req.status = "running"
    /\ wbi.now < CACHE_DURATION
    /\ wbi' = [wbi EXCEPT !.now = @ + CACHE_DURATION]
    /\ UNCHANGED <<req, storeVars, pipeVars, listingVars, poolVars, fetchVars>>

\* the answers to a listing request: the page, a rate limit, a failure
SignedKinds == {"ok", "412", "http_error"}

\* one pass of the requester's loop; the clock moves on by its backoff sleep
SignedAttempt ==
    /\ pf.status = "running"
    /\ req.status = "running"
    /\ \E kind \in SignedKinds :
          /\ req' = make_request_attempt(req, [kind |-> kind, data |-> PageBody])
          /\ wbi' = [wbi EXCEPT !.now = @ + BackoffSecs(req'.sleeps, Len(req.sleeps) + 1)]
    /\ UNCHANGED <<storeVars, pipeVars, listingVars, poolVars, fetchVars>>

\* the invocation is over: the pass of _fetch_page_with_retry ends, after its
\* wait if the invocation raised and a try is left
SignedTryEnd ==
    /\ pf.status = "running"
    /\ req.status \in {"returned", "returned_none", "raised"}
    /\ pf' = fetch_page_attempt(pf, req)
    /\ req' = [req EXCEPT !.status = "idle"]
    /\ wbi' = [wbi EXCEPT !.now = @ + (IF Len(pf'.waits) > Len(pf.waits)
                                       THEN pf'.waits[Len(pf'.waits)] ELSE 0)]
    /\ UNCHANGED <<batch, sv, dm, storeVars, pipeVars, listingVars, poolVars>>

----------------------------------------------------------------------------
(* The delay manager between two uploaders                                 *)

\* update_video_count(count)
UpdateVideoCount ==
    /\ \E count \in 0..MaxCount : last_user_video_count' = count
    /\ dm' = [dm EXCEPT !.op = "update_video_count"]
    /\ UNCHANGED <<orch, prod, queue, unfinished, workers, item_failed, pf, batch, sv,
                   storeVars, reqVars, listingVars, poolVars>>

GetUserSwitchDelay ==
    /\ \E draw \in 0..DrawSteps : dm' = get_user_switch_delay(dm, last_user_video_count, draw)
    /\ UNCHANGED <<pf, batch, sv, storeVars, reqVars, pipeVars, listingVars, poolVars>>

----------------------------------------------------------------------------
(* The orchestrator: per uploader, queue, producer, workers, drain,         *)
(* sentinels, join, inter-uploader delay                                    *)

OneSentinelShort == NWorkers - 1

sentinels_to_post == NWorkers

\* leaving uploader u without the inter-uploader delay
next_user(o) ==
    IF o.u < NUsers
    THEN [o EXCEPT !.pc = "start", !.u = @ + 1, !.switch_delay_count = -1]
    ELSE [o EXCEPT !.pc = "done"]

\* The workers of an uploader left on an exception keep running: they take
\* what is still on their queue and then wait on it for ever.  Their steps
\* touch only that queue and the store, so they are taken before the tasks of
\* the next uploader are created.
OrchStart ==
    /\ orch.pc = "start"
    /\ queue = <<>> \/ AllExited
    /\ \A w \in Workers : workers[w].pc # "busy"
    /\ orch' = [orch EXCEPT !.pc = "await_producer", !.posted = 0]
    /\ queue' = <<>>
    /\ unfinished' = 0
    /\ prod' = StartProducer
    /\ workers' = [w \in Workers |-> Waiting]
    /\ item_failed' = FALSE
    /\ UNCHANGED <<last_user_video_count, storeVars, reqVars, listingVars, poolVars, fetchVars>>

OrchProducerReturned ==
    /\ orch.pc = "await_producer"
    /\ prod.pc = "returned"
    /\ orch' = [orch EXCEPT !.pc = "join_queue"]
    /\ UNCHANGED <<prod, queue, unfinished, workers, item_failed, last_user_video_count,
                   storeVars, reqVars, listingVars, poolVars, fetchVars>>

\* the producer's exception surfaces where the orchestrator awaits it and is
\* caught by the per-uploader handler: drain, sentinels, join and delay are skipped
OrchProducerRaised ==
    /\ orch.pc = "await_producer"
    /\ prod.pc = "raised"
    /\ orch' = next_user(orch)
    /\ UNCHANGED <<prod, queue, unfinished, workers, item_failed, last_user_video_count,
                   storeVars, reqVars, listingVars, poolVars, fetchVars>>

OrchQueueJoined ==
    /\ orch.pc = "join_queue"
    /\ unfinished = 0
    /\ orch' = [orch EXCEPT !.pc = "sentinels"]
    /\ UNCHANGED <<prod, queue, unfinished, workers, item_failed, last_user_video_count,
                   storeVars, reqVars, listingVars, poolVars, fetchVars>>

OrchPutSentinel ==
    /\ orch.pc = "sentinels"
    /\ Len(queue) < QueueSize
    /\ queue' = Append(queue, Sentinel)
    /\ unfinished' = unfinished + 1
    /\ orch' = [orch EXCEPT !.posted = @ + 1,
                            !.pc = IF orch.posted + 1 < sentinels_to_post
                                   THEN "sentinels" ELSE "gather"]
    /\ UNCHANGED <<prod, workers, item_failed, last_user_video_count, storeVars, reqVars, listingVars, poolVars, fetchVars>>

OrchWorkersJoined ==
    /\ orch.pc = "gather"
    /\ \A w \in Workers : workers[w].pc = "exited"
    /\ orch' = IF orch.u < NUsers
               THEN [orch EXCEPT !.pc = "sleep",
                                 !.switch_delay_count = last_user_video_count]
               ELSE [orch EXCEPT !.pc = "done"]
    /\ UNCHANGED <<prod, queue, unfinished, workers, item_failed, last_user_video_count,
                   storeVars, reqVars, listingVars, poolVars, fetchVars>>

OrchSleep ==
    /\ orch.pc = "sleep"
    /\ orch' = next_user(orch)
    /\ UNCHANGED <<prod, queue, unfinished, workers, item_failed, last_user_video_count,
                   storeVars, reqVars, listingVars, poolVars, fetchVars>>

----------------------------------------------------------------------------
(* The store a run starts from: video rows of an earlier run or of a       *)
(* manual review, each with any classification.                            *)

PipelineIdle ==
    /\ orch = [pc |-> "done", u |-> 0, posted |-> 0, switch_delay_count |-> -1]
    /\ prod = IdleProducer
    /\ queue = <<>>
    /\ unfinished = 0
    /\ workers = [w \in Workers |-> NoItem]
    /\ item_failed = FALSE
    /\ last_user_video_count = 0
    /\ remote = NoRemote
    /\ consumed = <<>>
    /\ PoolIdle
    /\ FetchIdle

SeedVideos ==
    UNION { [S -> [touhou_status : Statuses, tags : {<<>>}]] : S \in SUBSET Aids }

InitStore ==
    /\ \E seed \in SeedVideos :
          db = [conn |-> [videos |-> seed, video_parts |-> <<>>],
                disk |-> [videos |-> seed, video_parts |-> <<>>],
                inTx |-> FALSE]
    /\ lastOp = NoOp
    /\ lastFetch = NoFetch
    /\ req = IdleRequest
    /\ wbi = IdleSigner
    /\ PipelineIdle

NextStore == ProcessVideo /\ UNCHANGED <<reqVars, pipeVars, listingVars, poolVars, fetchVars>>

SpecStore == InitStore /\ [][NextStore]_vars

EmptyStore == [videos |-> <<>>, video_parts |-> <<>>]

InitReq ==
    /\ db = [conn |-> EmptyStore, disk |-> EmptyStore, inTx |-> FALSE]
    /\ lastOp = NoOp
    /\ lastFetch = NoFetch
    /\ req = IdleRequest
    /\ wbi = IdleSigner
    /\ PipelineIdle

NextReq == CallRequester \/ RequesterAttempt

SpecReq == InitReq /\ [][NextReq]_vars

InitSigner ==
    /\ db = [conn |-> EmptyStore, disk |-> EmptyStore, inTx |-> FALSE]
    /\ lastOp = NoOp
    /\ lastFetch = NoFetch
    /\ req = IdleRequest
    /\ \E t \in Instants : wbi = [IdleSigner EXCEPT !.now = t]
    /\ PipelineIdle

NextSigner == Tick \/ GetWbiKeys \/ EncWbi

SpecSigner == InitSigner /\ [][NextSigner]_vars

InitListing ==
    /\ db = [conn |-> EmptyStore, disk |-> EmptyStore, inTx |-> FALSE]
    /\ lastOp = NoOp
    /\ lastFetch = NoFetch
    /\ req = IdleRequest
    /\ wbi = IdleSigner
    /\ orch = [pc |-> "await_producer", u |-> 1, posted |-> 0, switch_delay_count |-> -1]
    /\ prod = StartProducer
    /\ queue = <<>>
    /\ unfinished = 0
    /\ workers = [w \in Workers |-> NoItem]
    /\ item_failed = FALSE
    /\ last_user_video_count = 0
    /\ remote \in Remotes
    /\ consumed = <<>>
    /\ PoolIdle
    /\ FetchIdle

NextListing == ListingFetchPage \/ ListingSeason \/ ProducerPut \/ Consume

SpecListing == InitListing /\ [][NextListing]_vars

InitPool ==
    /\ db = [conn |-> EmptyStore, disk |-> EmptyStore, inTx |-> FALSE]
    /\ lastOp = NoOp
    /\ lastFetch = NoFetch
    /\ req = IdleRequest
    /\ wbi = IdleSigner
    /\ PipelineIdle

NextPool ==
    \/ \E w \in Workers : PoolStart(w)
    \/ \E w \in Workers, k \in SubKinds : SubAcquire(w, k)
    \/ \E w \in Workers, k \in SubKinds : SubEnd(w, k)
    \/ \E w \in Workers : PoolResume(w)
    \/ \E w \in Workers : PoolStatement(w)

SpecPool == InitPool /\ [][NextPool]_vars

InitPage ==
    /\ db = [conn |-> EmptyStore, disk |-> EmptyStore, inTx |-> FALSE]
    /\ lastOp = NoOp
    /\ lastFetch = NoFetch
    /\ req = IdleRequest
    /\ wbi = IdleSigner
    /\ orch = [pc |-> "await_producer", u |-> 1, posted |-> 0, switch_delay_count |-> -1]
    /\ prod = StartProducer
    /\ queue = <<>>
    /\ unfinished = 0
    /\ workers = [w \in Workers |-> NoItem]
    /\ item_failed = FALSE
    /\ last_user_video_count = 0
    /\ remote = NoRemote
    /\ consumed = <<>>
    /\ PoolIdle
    /\ pf = StartPageFetch
    /\ batch = IdleBatch
    /\ sv = IdleSeason
    /\ dm = IdleDelay

NextPage == PageTry \/ PageToProducer

SpecPage == InitPage /\ [][NextPage]_vars

InitSigned == InitPage

NextSigned == SignedCall \/ SignedLate \/ SignedAttempt \/ SignedTryEnd \/ PageToProducer

SpecSigned == InitSigned /\ [][NextSigned]_vars

InitDelay ==
    /\ db = [conn |-> EmptyStore, disk |-> EmptyStore, inTx |-> FALSE]
    /\ lastOp = NoOp
    /\ lastFetch = NoFetch
    /\ req = IdleRequest
    /\ wbi = IdleSigner
    /\ orch = [pc |-> "done", u |-> 0, posted |-> 0, switch_delay_count |-> -1]
    /\ prod = IdleProducer
    /\ queue = <<>>
    /\ unfinished = 0
    /\ workers = [w \in Workers |-> NoItem]
    /\ item_failed = FALSE
    /\ last_user_video_count = 0
    /\ remote = NoRemote
    /\ consumed = <<>>
    /\ PoolIdle
    /\ pf = IdlePageFetch
    /\ batch = IdleBatch
    /\ sv = IdleSeason
    /\ \E config \in Configs : dm = [IdleDelay EXCEPT !.config = config]

NextDelay == UpdateVideoCount \/ GetUserSwitchDelay

SpecDelay == InitDelay /\ [][NextDelay]_vars

InitBatch ==
    /\ db = [conn |-> EmptyStore, disk |-> EmptyStore, inTx |-> FALSE]
    /\ lastOp = NoOp
    /\ lastFetch = NoFetch
    /\ req = IdleRequest
    /\ wbi = IdleSigner
    /\ orch = [pc |-> "done", u |-> 0, posted |-> 0, switch_delay_count |-> -1]
    /\ prod = IdleProducer
    /\ queue = <<>>
    /\ unfinished = 0
    /\ workers = [w \in Workers |-> NoItem]
    /\ item_failed = FALSE
    /\ last_user_video_count = 0
    /\ remote = NoRemote
    /\ consumed = <<>>
    /\ PoolIdle
    /\ pf = IdlePageFetch
    /\ sv = IdleSeason
    /\ dm = IdleDelay
    /\ \E aid \in Aids, tags \in TagResponses, parts \in PartResponses :
          batch = [IdleBatch EXCEPT !.status = "fetching", !.aid = aid,
                                    !.bodies = [tags |-> tags, parts |-> parts]]

NextBatch == (\E k \in SubKinds : BatchRound(k)) \/ BatchProcess

SpecBatch == InitBatch /\ [][NextBatch]_vars

\* the listing pages of a run with bundle entries: a plain video and two
\* entries of bundle 1, or one entry of bundle 1
SeasonRemotes ==
    { r \in Remotes :
        /\ \A pn \in DOMAIN r.pages : \E i \in DOMAIN r.pages[pn] : r.pages[pn][i].season_id # 0
        /\ \A s \in Seasons : r.bundles[s] = <<>> }

InitSeason ==
    /\ db = [conn |-> EmptyStore, disk |-> EmptyStore, inTx |-> FALSE]
    /\ lastOp = NoOp
    /\ lastFetch = NoFetch
    /\ req = IdleRequest
    /\ wbi = IdleSigner
    /\ orch = [pc |-> "await_producer", u |-> 1, posted |-> 0, switch_delay_count |-> -1]
    /\ prod = StartProducer
    /\ queue = <<>>
    /\ unfinished = 0
    /\ workers = [w \in Workers |-> NoItem]
    /\ item_failed = FALSE
    /\ last_user_video_count = 0
    /\ remote \in SeasonRemotes
    /\ consumed = <<>>
    /\ PoolIdle
    /\ FetchIdle

NextSeason ==
    ListingFetchPage \/ SeasonStart \/ SeasonRequest \/ SeasonToProducer \/ ProducerPut \/ Consume

SpecSeason == InitSeason /\ [][NextSeason]_vars

\* the event loop keeps running the enumeration and the remote answers
\* every request
SpecSeasonFair == SpecSeason /\ WF_vars(SeasonRequest)

InitPipeline ==
    /\ db = [conn |-> EmptyStore, disk |-> EmptyStore, inTx |-> FALSE]
    /\ lastOp = NoOp
    /\ lastFetch = NoFetch
    /\ req = IdleRequest
    /\ wbi = IdleSigner
    /\ orch = [pc |-> "start", u |-> 1, posted |-> 0, switch_delay_count |-> -1]
    /\ prod = IdleProducer
    /\ queue = <<>>
    /\ unfinished = 0
    /\ workers = [w \in Workers |-> NoItem]
    /\ item_failed = FALSE
    /\ last_user_video_count = 0
    /\ remote = NoRemote
    /\ consumed = <<>>
    /\ PoolIdle
    /\ FetchIdle

NextPipeline ==
    \/ OrchStart
    \/ ProducerFetchPage
    \/ ProducerSeason
    \/ ProducerPut
    \/ \E w \in Workers : WorkerGet(w)
    \/ \E w \in Workers : WorkerProcess(w)
    \/ OrchProducerReturned
    \/ OrchProducerRaised
    \/ OrchQueueJoined
    \/ OrchPutSentinel
    \/ OrchWorkersJoined
    \/ OrchSleep

SpecPipeline == InitPipeline /\ [][NextPipeline]_vars

\* the event loop runs a task that can take a step
SpecPipelineFair == SpecPipeline /\ WF_vars(NextPipeline)

----------------------------------------------------------------------------
(* Claims about the queue *)

\* the producer is in queue.put and the queue is full
PutBlocked == prod.pc = "put" /\ prod.puts # <<>> /\ Len(queue) >= QueueSize

\* C36: the queue never holds more than QueueSize items; while the producer
\* is blocked in put it does not move and no listing or bundle request is
\* made; and a request is made only when everything fetched before it has
\* been put, so what is fetched and not yet taken is at most the queue's
\* capacity and the rest of the page or bundle being put.
C36_QueueBounded ==
    /\ Len(queue) <= QueueSize
    /\ prod.pc = "fetch" => prod.puts = <<>> /\ prod.pending = <<>>
    /\ sv.status = "running" => prod.pc = "season" /\ prod.puts = <<>>

\* C36, the blocked producer: a step taken while it is blocked leaves it, the
\* page log and the enumeration as they are, and takes an item off the queue.
C36_BlockedProducerWaits ==
    [][ PutBlocked => /\ prod' = prod
                      /\ sv' = sv
                      /\ Len(queue') < Len(queue) ]_vars

\* C36 as one formula
C36_Backpressure == []C36_QueueBounded /\ C36_BlockedProducerWaits

\* the producer is blocked with a video of a bundle left to put and an entry
\* of its page left to handle
C36_Witness ==
    /\ PutBlocked
    /\ Len(queue) = QueueSize
    /\ sv.all_videos = <<4, 5>>
    /\ Len(prod.puts) >= 1
    /\ prod.pending # <<>>

----------------------------------------------------------------------------
(* Claims about the pages of a run *)

\* the least number of pages of page_size entries that hold n entries
PagesFor(n) ==
    CHOOSE k \in 0..(n + 1) : (k - 1) * page_size < n /\ n <= k * page_size

\* the pages a run requests: page 1, and the pages up to total_pages
LastPage(total_pages) == IF total_pages > 1 THEN total_pages ELSE 1

\* C34: total_pages is ceil(total_count / page_size), computed from page 1's
\* count and not changed afterwards; the pages requested are 1, 2, ... in
\* order, each once and none above total_pages; a run that completes has
\* requested page 1 and exactly the pages 2..total_pages; with a count of 0
\* or of at most page_size only page 1 is requested.
C34_PagesRequested ==
    /\ \A n \in 0..((MaxPages + 1) * page_size) : total_pages_of(n) = PagesFor(n)
    /\ prod.requested # <<>> /\ prod.end # "page1_failed" =>
          /\ prod.total_videos = remote_count(remote)
          /\ prod.total_pages = PagesFor(remote_count(remote))
    /\ \A i \in 1..Len(prod.requested) : prod.requested[i] = i
    /\ prod.end # "page1_failed" => Len(prod.requested) <= LastPage(prod.total_pages)
    /\ prod.end = "complete" => Len(prod.requested) = LastPage(prod.total_pages)
    /\ (prod.end = "complete" /\ remote_count(remote) <= page_size) => prod.requested = <<1>>

\* a listing of exactly page_size entries was completed with page 1 alone
C34_Witness ==
    /\ prod.end = "complete"
    /\ remote_count(remote) = page_size
    /\ prod.total_pages = 1
    /\ prod.requested = <<1>>
    /\ Enqueued # <<>>

\* C35: one inter-page sleep is taken for each page from 2 on and none for
\* page 1, whatever the number of long-interval tries the page takes: after
\* k pages were requested k - 1 sleeps were taken, a run that completes
\* over N pages has taken N - 1 (2 for 127 videos at page size 50).
C35_InterPageSleeps ==
    /\ total_pages_of(127) - 1 = 2
    /\ prod.page_sleeps = (IF prod.requested = <<>> THEN 0 ELSE Len(prod.requested) - 1)
    /\ prod.end = "complete" => prod.page_sleeps = LastPage(prod.total_pages) - 1

\* a run of two pages was completed with one sleep
C35_Witness ==
    /\ prod.end = "complete"
    /\ prod.total_pages = 2
    /\ prod.requested = <<1, 2>>
    /\ prod.page_sleeps = 1

----------------------------------------------------------------------------
(* Claims about the bundle enumeration *)

\* C31: an enumeration that has started returns, whatever the remote answers
\* to its page requests.
C31_EnumerationTerminates == (sv.status = "running") ~> (sv.status = "returned")

\* the answer fails the page: an error status, a transport error, a body
\* that does not decode or carries code != 0, or a null entry among archives
ErrorAnswer(r) == r.kind \in SeasonErrors \/ \E i \in 1..Len(r.archives) : r.archives[i] = NullArchive

\* the videos of the answer that stand before its first null entry
ValidBeforeNull(r) ==
    LET nulls == { i \in 1..Len(r.archives) : r.archives[i] = NullArchive }
        n == IF nulls = {} THEN Len(r.archives)
             ELSE (CHOOSE i \in nulls : \A j \in nulls : i <= j) - 1
    IN  SelectSeq(SubSeq(r.archives, 1, n), LAMBDA a : a > 0)

\* the producer takes what the enumeration returned, puts it, and keeps the
\* rest of its page
ProducerTakesResult ==
    (prod.pc = "season" /\ prod'.pc = "put") =>
        /\ prod'.puts = sv.all_videos
        /\ prod'.pending = prod.pending

PlainEntries ==
    SelectSeq(EntriesUpTo(remote, PagesAnnounced(remote)),
              LAMBDA entry : Parses(entry) /\ entry.season_id = 0)

\* C33: in a producer run no bundle is enumerated twice: a bundle is in the
\* seen set when its enumeration starts, and the later entries of a bundle
\* whose enumeration failed or gave only part of its videos put nothing: the
\* queue receives the plain entries and what the one enumeration returned.
C33_BundleEnumeratedOnce ==
    /\ \A i, j \in 1..Len(sv.enumerated) : sv.enumerated[i] = sv.enumerated[j] => i = j
    /\ prod.pc = "season" => prod.video.season_id \in prod.processed_seasons
    /\ \A i \in 1..Len(sv.enumerated) : sv.enumerated[i] \in prod.processed_seasons
    /\ prod.end = "complete" =>
          Len(Enqueued) = Len(PlainEntries)
                            + (IF sv.enumerated = <<>> THEN 0 ELSE Len(sv.all_videos))

\* a run of two pages, three entries of bundle 1 on them; the enumeration
\* failed on its second page
C33_Witness ==
    /\ prod.end = "complete"
    /\ Len(remote.pages) = 2
    /\ Count(EntriesUpTo(remote, 2), LAMBDA entry : entry.season_id = 1) = 3
    /\ sv.enumerated = <<1>>
    /\ sv.failed
    /\ sv.all_videos = <<4>>

----------------------------------------------------------------------------
(* Claims about the batch fetch *)

\* every request of the sub-fetch failed
FailedOnEveryAttempt(k) == batch[k].st = "done" /\ ~batch[k].succeeded

\* the video's row on disk and its part rows
SavedRow == db.disk.videos[batch.aid]
SavedParts == {c \in DOMAIN db.disk.video_parts : db.disk.video_parts[c].aid = batch.aid}

\* C30: a sub-fetch of a video ends with an entry for the video, the
\* extracted data on success and the empty list after retry_times + 1 failed
\* rounds; and when the tags or the parts failed on every attempt the worker
\* still persists the video: with an empty tag list and auto_no_match when
\* the tags failed, with no parts when the parts failed.
C30_FailedFetchStillPersists ==
    /\ \A k \in SubKinds :
          batch[k].st = "done" =>
             IF batch[k].succeeded
             THEN batch[k].entry = [none |-> FALSE, data |-> batch.bodies[k]]
             ELSE /\ batch[k].entry = [none |-> FALSE, data |-> <<>>]
                  /\ batch[k].round = batch_retry_times + 1
    /\ (batch.status \in {"saved", "failed"}
            /\ (FailedOnEveryAttempt("tags") \/ FailedOnEveryAttempt("parts"))) =>
          /\ batch.status = "saved"
          /\ batch.aid \in DOMAIN db.disk.videos
          /\ FailedOnEveryAttempt("tags") =>
                /\ SavedRow.tags = join_tags(<<>>)
                /\ SavedRow.touhou_status = AUTO_NO_MATCH
          /\ FailedOnEveryAttempt("parts") => SavedParts = {}

(* Claims about the page fetch *)

\* the requests of a try all failed: none was answered with an acceptable body
AllFailed(kinds) == \A i \in 1..Len(kinds) : kinds[i] # "ok"

\* the page fetch has made a try and its latest try failed
LastTryFailed == pf.tries > 0 /\ AllFailed(pf.last_kinds)

\* C26: every try runs the requester's full budget of retry_times requests,
\* a try whose requests all failed is a failed try whatever the failure
\* class (the page fetch goes on to the next try or raises
\* PageFetchExhaustedError, it never ends otherwise), and the page is given
\* up with PageFetchExhaustedError only after max_retries * retry_times
\* failed requests.
C26_EveryFailureIsAFailedTry ==
    /\ LastTryFailed =>
          /\ Len(pf.last_kinds) = retry_times
          /\ pf.status \in {"running", "exhausted"}
    /\ pf.status = "exhausted" =>
          /\ pf.tries = max_retries
          /\ pf.requests = max_retries * retry_times

\* the waits the claim lists: 30 * k after the k-th failed try
ClaimedWaits(n) == [k \in 1..n |-> base_retry_delay * k]

\* the waits made: 30 * k after the k-th failed try unless it was the last try
MadeWaits(n) == ClaimedWaits(IF n < max_retries THEN n ELSE max_retries - 1)

\* the producer returned at page 1 without a put
ProducerGaveUp ==
    /\ prod.pc = "returned"
    /\ prod.end = "page1_failed"
    /\ prod.puts = <<>>
    /\ queue = <<>>

----------------------------------------------------------------------------
(* Claims about the pool *)

\* between BEGIN and the commit or rollback
InTransaction(w) == tasks[w].pc \in {"video", "parts", "tags", "status", "commit"}

ReadyToSave(w) ==
    /\ tasks[w].pc = "fetching"
    /\ tasks[w].tags.st = "done"
    /\ tasks[w].parts.st = "done"

\* C22: at most one transaction is open on the shared connection; the worker
\* that opened it is the task the event loop is running until it commits or
\* rolls back, and until then no other worker's task moves and nothing but
\* that worker's statements changes the store.
C22_TransactionsNotInterleaved ==
    /\ [](/\ Cardinality({ w \in Workers : InTransaction(w) }) <= 1
          /\ db.inTx <=> \E w \in Workers : InTransaction(w)
          /\ \A w \in Workers : InTransaction(w) => running = w)
    /\ [][\A w \in Workers :
             InTransaction(w)
             => /\ \A v \in Workers \ {w} : tasks'[v] = tasks[v]
                /\ tasks'[w] # tasks[w]
                /\ permits' = permits]_vars

\* C22, witness: a worker is about to commit what it wrote while another
\* worker's sub-fetches are over and its save is due.
C22_Witness ==
    \E w, v \in Workers :
        /\ w # v
        /\ tasks[w].pc = "commit"
        /\ db.inTx
        /\ db.conn # db.disk
        /\ ReadyToSave(v)

\* C23: the sub-requests in flight never exceed the N permits; the permits
\* out are exactly the sub-requests in flight, so all N are back when none is;
\* and a sub-request that ends, by success or by failure, gives its permit back.
C23_PermitsBoundInFlight ==
    /\ [](/\ permits >= 0
          /\ Cardinality(InFlight) <= NWorkers
          /\ permits + Cardinality(InFlight) = NWorkers)
    /\ [][\A w \in Workers, k \in SubKinds :
             (tasks[w][k].st = "inflight" /\ tasks'[w][k].st # "inflight")
             => permits' = permits + 1]_vars

\* C23, witness: every permit is out, a sub-fetch is waiting for one, and one
\* of the sub-requests in flight is the retry of a failed round.
C23_Witness ==
    /\ permits = 0
    /\ Cardinality(InFlight) = NWorkers
    /\ \E w \in Workers, k \in SubKinds : tasks[w][k].st = "wait"
    /\ \E w \in Workers, k \in SubKinds : tasks[w][k].st = "inflight" /\ tasks[w][k].round > 0

----------------------------------------------------------------------------
(* Claims about the store *)

Disk == db.disk

PartsOf(tables, aid) == { c \in DOMAIN tables.video_parts : tables.video_parts[c].aid = aid }

Range(s) == { s[i] : i \in 1..Len(s) }

Confirmed == {CONFIRMED_MATCH, CONFIRMED_NO_MATCH}

\* C1: a video whose stored classification is confirmed_match or
\* confirmed_no_match keeps that classification over every re-ingest.
C1_ConfirmedNeverOverwritten ==
    [][\A aid \in DOMAIN Disk.videos :
          Disk.videos[aid].touhou_status \in Confirmed
          => /\ aid \in DOMAIN Disk'.videos
             /\ Disk'.videos[aid].touhou_status = Disk.videos[aid].touhou_status]_vars

\* C2: every ingest either commits the video row together with every part of
\* that ingest, or leaves the committed store exactly as it was; it commits
\* exactly when no statement failed, no transaction stays open and the
\* connection holds no uncommitted write.
C2_AtomicWrite ==
    [][/\ IF lastOp'.ok
           THEN /\ lastOp'.aid \in DOMAIN Disk'.videos
                /\ Range(lastOp'.parts) \subseteq PartsOf(Disk', lastOp'.aid)
           ELSE Disk' = Disk
        /\ db'.conn = Disk'
        /\ ~db'.inTx]_vars

\* C2, witness: a save of video 1 with two parts failed and was rolled back
\* while the store holds the row and one part of an earlier ingest.
C2_Witness ==
    /\ lastOp = [aid |-> 1, parts |-> <<1, 2>>, ok |-> FALSE]
    /\ 1 \in DOMAIN Disk.videos
    /\ Disk.videos[1].touhou_status = AUTO_MATCH
    /\ PartsOf(Disk, 1) = {2}

\* C3: after an ingest of a video, the persisted part rows of that video are
\* exactly the parts of that ingest's parts fetch (none if the fetch failed).
C3_PartsEqualLastFetch ==
    lastOp.ok => PartsOf(Disk, lastOp.aid) = Range(lastOp.parts)

------------------------------------------------------------\* C15: no persisted tag list contains a discovery marker: what an ingest
Unmarked(tags) == { i \in 1..Len(tags) : ~tag_pattern_match(tags[i]) }

HasKeyword(tag) == \E j \in 1..Len(tag) : tag[j] \in touhou_keywords

\* C16: for a video with no prior confirmed state, the classification the
\* worker writes is auto_match if and only if some tag of the fetched list that
\* is no discovery marker contains a keyword, and auto_no_match otherwise; a
\* keyword inside a discovery marker does not count.
C16_ClassificationFromFilteredTags ==
    [][(/\ lastOp'.ok
        /\ lastOp'.aid \in DOMAIN Disk.videos
              => Disk.videos[lastOp'.aid].touhou_status \notin Confirmed)
       => /\ lastOp'.aid \in DOMAIN Disk'.videos
          /\ Disk'.videos[lastOp'.aid].touhou_status =
                IF \E i \in Unmarked(lastFetch'.tags) : HasKeyword(lastFetch'.tags[i])
                THEN 1 ELSE 2]_vars

\* a video whose only keyword sits inside a discovery marker was saved as
\* auto_no_match
C16_Witness ==
    /\ lastOp.ok
    /\ lastFetch.tags = << <<PRE, "Touhou", SUF>>, <<"x">> >>
    /\ Disk.videos[lastOp.aid].touhou_status = AUTO_NO_MATCH
    /\ Disk.videos[lastOp.aid].tags = <<"x">>

\* C17: ingest is idempotent: saving the same enriched video (same id, same
\* fetched tags, same fetched parts) a second time leaves the persisted video
\* rows and part rows as they were after the first save.
C17_IngestIdempotent ==
    [][lastFetch'.repeat => Disk' = Disk]_vars

\* the same video with two parts and a keyword tag was saved twice in a row
C17_Witness ==
    /\ lastFetch.repeat
    /\ lastOp.ok
    /\ lastOp.parts = <<1, 2>>
    /\ Len(lastFetch.tags) = 2
    /\ PartsOf(Disk, lastOp.aid) = {1, 2}
    /\ Disk.videos[lastOp.aid].touhou_status = AUTO_MATCH

----------------
(* Claims about the requester *)

Kinds(responses) == [i \in 1..Len(responses) |-> responses[i].kind]

IsBackoff(sleep) == sleep.kind = "backoff"

Backoffs(sleeps) ==
    LET b == SelectSeq(sleeps, IsBackoff) IN [i \in 1..Len(b) |-> b[i].secs]

\* C10: the k-th request (k counted from 1) of an invocation that is answered
\* with HTTP 412 is followed by a backoff sleep of retry_delay * k and, while
\* the budget lasts, by request k + 1; on the answers 412, 412, success the
\* invocation issues exactly 3 requests, backs off 5 s and then 10 s, and
\* returns what the extractor made of the third body.
C10_ThrottleBackoff ==
    [][/\ (/\ req.status = "running"
           /\ req'.requests = req.requests + 1
           /\ req'.responses[Len(req'.responses)].kind = "412")
          => /\ req'.sleeps = req.sleeps \o <<[kind |-> "backoff", secs |-> retry_delay * req'.requests],
                                               [kind |-> "pacing"]>>
             /\ req'.requests < retry_times
                   => /\ req'.status = "running"
                      /\ req'.attempt = req'.requests
       /\ Kinds(req'.responses) = <<"412", "412", "ok">>
          => /\ req'.requests = 3
             /\ Backoffs(req'.sleeps) = <<5, 10>>
             /\ req'.status = "returned"
             /\ req'.value = process_data(req'.responses[3].data)]_vars

\* C10, witness: an invocation answered 412, 412, success has returned.
C10_Witness ==
    /\ Kinds(req.responses) = <<"412", "412", "ok">>
    /\ req.status = "returned"
    /\ req.requests = 3

\* the pacing sleeps among a call's sleeps
Pacings(sleeps) == { i \in 1..Len(sleeps) : sleeps[i].kind = "pacing" }

\* C11: every attempt of the requester, whatever its outcome, is followed by
\* exactly one pacing sleep before the requester returns, raises or starts the
\* next attempt: a pass of the loop adds one pacing sleep, as the last of its
\* sleeps, so a call has slept for pacing once per request it made, and its
\* most recent sleep is the pacing sleep of its most recent attempt.
C11_PacingAfterEveryAttempt ==
    /\ [][req'.requests = req.requests + 1 =>
            /\ Cardinality(Pacings(req'.sleeps)) = Cardinality(Pacings(req.sleeps)) + 1
            /\ req'.sleeps[Len(req'.sleeps)].kind = "pacing"
            /\ Len(req'.sleeps) - Len(req.sleeps) \in {1, 2}]_vars
    /\ [](Cardinality(Pacings(req.sleeps)) = req.requests)
    /\ [](req.status # "running" /\ req.requests > 0 =>
            req.sleeps[Len(req.sleeps)].kind = "pacing")

\* a call that raised on its third attempt, after a throttled first one, a
\* transport error and an envelope with code != 0: three pacing sleeps
C11_Witness ==
    /\ req.status = "raised"
    /\ Kinds(req.responses) = <<"412", "transport", "code">>
    /\ Cardinality(Pacings(req.sleeps)) = 3
    /\ Len(req.sleeps) = 5

LastResponse(st) == st.responses[Len(st.responses)]

\* C25: an invocation of the requester ends in one of two ways: it returns what
\* the extractor made of the body of a successful attempt, or it raises; it
\* never returns without a result, in particular not when its last attempt, or
\* every attempt, is answered with HTTP 412.
C25_ReturnsValueOrRaises ==
    /\ req.status \in {"idle", "running", "returned", "raised"}
    /\ req.status = "returned"
          => /\ LastResponse(req).kind = "ok"
             /\ req.value = process_data(LastResponse(req).data)

\* C28: an attempt whose envelope has code != 0 does not reach the extractor:
\* while the budget lasts it backs off retry_delay * k after the k-th request
\* and retries, as after a transport error, and on the last attempt it raises
\* the envelope's error; answered with code != 0 throughout, the invocation
\* raises that error after exactly retry_times requests.  The extractor runs
\* only on a body with code == 0, once per such attempt.
C28_EnvelopeErrorThroughRetryPath ==
    /\ [][(req.status = "running" /\ req'.requests = req.requests + 1)
          => LET r == LastResponse(req')
             IN  /\ r.kind = "code"
                    => /\ req'.extracted = req.extracted
                       /\ IF req'.requests < retry_times
                          THEN /\ req'.status = "running"
                               /\ req'.sleeps = req.sleeps \o
                                     <<[kind |-> "backoff", secs |-> retry_delay * req'.requests],
                                       [kind |-> "pacing"]>>
                          ELSE /\ req'.status = "raised"
                               /\ req'.exc = "Exception(API returned error)"
                 /\ req'.extracted # req.extracted
                    => /\ r.kind \in {"ok", "malformed"}
                       /\ req'.extracted = req.extracted + 1]_vars
    /\ []((req.status \notin {"idle", "running"}
             /\ \A i \in 1..Len(req.responses) : req.responses[i].kind = "code")
          => /\ req.status = "raised"
             /\ req.requests = retry_times
             /\ req.exc = "Exception(API returned error)"
             /\ req.extracted = 0)

\* C28, witness: three envelopes with code != 0, the error raised.
C28_Witness ==
    /\ Kinds(req.responses) = <<"code", "code", "code">>
    /\ req.status = "raised"
    /\ req.exc = "Exception(API returned error)"
    /\ Backoffs(req.sleeps) = <<5, 10>>

\* C29: an invocation issues at most retry_times requests, one after the
\* other: a request is issued only by the running loop, with every earlier
\* request answered and followed first by its backoff sleep and then by its
\* pacing sleep.
C29_SequentialAttempts ==
    /\ [](/\ req.requests <= retry_times
          /\ Len(req.responses) = req.requests
          /\ req.status = "running"
                => /\ req.attempt = req.requests
                   /\ Len(req.sleeps) = 2 * req.requests
                   /\ \A k \in 1..req.requests :
                         /\ req.sleeps[2 * k - 1] = [kind |-> "backoff", secs |-> retry_delay * k]
                         /\ req.sleeps[2 * k] = [kind |-> "pacing"])
    /\ [][req'.requests # req.requests
          => \/ req' = StartRequest
             \/ /\ req.status = "running"
                /\ req'.requests = req.requests + 1]_vars

\* C29, witness: the third request is due, after a transport error and a 412
\* with their sleeps.
C29_Witness ==
    /\ req.status = "running"
    /\ Kinds(req.responses) = <<"transport", "412">>
    /\ req.requests = retry_times - 1
    /\ Len(req.sleeps) = 4

----------------------------------------------------------------------------
(* Claims about the signer *)

\* C12: signing does not mutate its input: after enc_wbi(p, img_key, sub_key)
\* returns, the map p the caller passed has exactly the keys and values it had
\* before the call (it has gained neither wts nor w_rid).
C12_SigningLeavesInputUnchanged ==
    wbi.op = "enc_wbi" => wbi.caller = wbi.arg

\* C13: for fixed img_key, sub_key and a fixed input map that includes a wts,
\* two invocations of the signing function, at any two clock times, return
\* identical signed maps.
C13_SignatureDeterminism ==
    [][(/\ wbi.op = "enc_wbi"
        /\ wbi'.op = "enc_wbi"
        /\ wbi'.arg = wbi.arg
        /\ wbi'.arg_keys = wbi.arg_keys
        /\ "wts" \in DictKeys(wbi.arg))
       => wbi'.signed = wbi.signed]_vars

\* the cached keys are less than 24 hours old
KeysFresh == wbi.cached_keys # <<>> /\ wbi.now - wbi.cached_time < 24 * 3600

\* a step that is a call of get_wbi_keys
GetWbiKeysStep == wbi'.op = "get_wbi_keys" /\ wbi'.now = wbi.now /\ wbi' # wbi

\* C14: get_wbi_keys makes a discovery request if and only if no keys are
\* cached or now - fetched_at >= 24 h; otherwise it returns the cached pair
\* with no request and no change to the cache; after a successful discovery the
\* cache holds the new pair with fetched_at the time of that call; so while
\* keys are less than 24 h old exactly one discovery request (the one that
\* fetched them) has been made since their discovery.
C14_KeyCache ==
    /\ [][GetWbiKeysStep =>
            /\ wbi'.requested <=> ~KeysFresh
            /\ KeysFresh =>
                  /\ ~wbi'.raised
                  /\ wbi'.ret = wbi.cached_keys
                  /\ wbi'.cached_keys = wbi.cached_keys
                  /\ wbi'.cached_time = wbi.cached_time
            /\ (wbi'.requested /\ ~wbi'.raised) =>
                  /\ wbi'.ret \in KeyPairs
                  /\ wbi'.cached_keys = wbi'.ret
                  /\ wbi'.cached_time = wbi.now]_vars
    /\ [](KeysFresh => wbi.requests_in_period = 1)

\* a call in the last second of the 24 hours after a discovery, answered from
\* the cache
C14_Witness ==
    /\ wbi.op = "get_wbi_keys"
    /\ ~wbi.requested
    /\ wbi.cached_keys \in KeyPairs
    /\ wbi.ret = wbi.cached_keys
    /\ wbi.now - wbi.cached_time = 24 * 3600 - 1
    /\ wbi.requests_in_period = 1

----------------
(* Claims about the signed page fetch *)

\* the first use of the keys, by the first try of page 1, ended in the error
\* of the key discovery
FirstUseFailed == pf.first = KeyDiscoveryError

\* the parameters carry the signature
Signed(params) == params # <<>> /\ {"wts", "w_rid"} \subseteq DictKeys(params)

\* the timestamp a signature made at clock reading now carries
WtsAt(now) == StrValue(filter_value(IntValue(now)))

\* C37: after a key-discovery failure on the first use the uploader is
\* aborted: no listing request is sent, nothing is put on the queue, the
\* producer does not return as if its listing were over, and the key cache
\* stays empty.
C37_DiscoveryFailureAborts ==
    FirstUseFailed =>
        /\ pf.requests = 0 /\ req.requests = 0
        /\ prod.puts = <<>> /\ queue = <<>>
        /\ prod.pc # "returned"
        /\ wbi.cached_keys = NoKeys

\* C38: the parameters of a signed request are signed once, when the
\* requester is entered, with the clock reading of that moment; the passes of
\* its loop and their sleeps, however long, leave them as they are; the
\* invocation of a later long-interval try is signed with another wts.
C38_SignedOncePerInvocation ==
    [][ /\ req'.params # req.params => req.status = "idle"
        /\ (req.status = "idle" /\ req'.status = "running") =>
              /\ Signed(req'.params)
              /\ DictGet(req'.params, "wts") = WtsAt(wbi.now)
              /\ Signed(req.params) =>
                    DictGet(req'.params, "wts") # DictGet(req.params, "wts")
        /\ (req.status = "running" /\ req'.requests > req.requests) =>
              Signed(req.params) /\ req'.params = req.params ]_vars

\* the third request of the second try's invocation has been sent, a day
\* after its signature
C38_Witness ==
    /\ pf.tries = 1
    /\ req.requests = 3
    /\ Signed(req.params)
    /\ DictGet(req.params, "wts") # WtsAt(wbi.now)
    /\ wbi.now >= CACHE_DURATION

----------------------------------------------------------------------------
(* Claims about the inter-uploader delay *)

\* C39: for every video count and every jitter draw the delay is
\* max(0, capped + j) with capped = min(BASE_DELAY + count * FACTOR_PER_VIDEO,
\* MAX_DELAY) and |j| <= capped * JITTER_RATIO; it is never negative and never
\* above MAX_DELAY * (1 + JITTER_RATIO); capped never decreases as the count
\* grows and stays at MAX_DELAY once BASE_DELAY + count * FACTOR_PER_VIDEO
\* has reached it.
C39_SwitchDelayBounds ==
    LET config == dm.config
        ratio == config.JITTER_RATIO
        reached(c) == config.BASE_DELAY + c * config.FACTOR_PER_VIDEO >= config.MAX_DELAY
        capped == min(config.BASE_DELAY + dm.count * config.FACTOR_PER_VIDEO, config.MAX_DELAY)
    IN  /\ dm.op = "get_user_switch_delay" =>
              /\ dm.count = last_user_video_count
              /\ dm.final_delay = max(0, capped + dm.j)
              /\ -(capped * ratio) <= dm.j * 100 /\ dm.j * 100 <= capped * ratio
              /\ dm.final_delay >= 0
              /\ dm.final_delay * 100 <= config.MAX_DELAY * (100 + ratio)
        /\ \A c \in 0..MaxCount, later \in 0..(MaxCount + 1) :
              c <= later =>
                  /\ capped_delay(config, c) <= capped_delay(config, later)
                  /\ reached(c) => capped_delay(config, later) = config.MAX_DELAY

\* a delay above MAX_DELAY: the limit was passed by the count and the draw
\* of the jitter was positive
C39_Witness ==
    /\ dm.op = "get_user_switch_delay"
    /\ dm.count > 0
    /\ dm.config.BASE_DELAY + dm.count * dm.config.FACTOR_PER_VIDEO > dm.config.MAX_DELAY
    /\ dm.j > 0
    /\ dm.final_delay > dm.config.MAX_DELAY

----------------------------------------------------------------------------
(* Claims about the pipeline *)

SentinelsQueued == Cardinality({ i \in 1..Len(queue) : queue[i] = Sentinel })

Occurrences(x, q) == Cardinality({ i \in 1..Len(q) : q[i] = x })

\* C4: whatever the remote answers, the producer ends by returning; no
\* exception leaves get_user_all_videos.
C4_ProducerNeverRaises == prod.pc # "raised"

\* C5: when the listing shows a video as member of a bundle not yet expanded,
\* the expansion hands that video to the queue exactly once.
C5_BundleVideoEnqueuedOnce ==
    [][(prod.pc = "season" /\ prod'.pc = "put")
          => Occurrences(prod.video.aid, prod'.puts) = 1]_vars

\* C6: the orchestrator leaves an uploader, for the next one or for the end of
\* the run, only when every worker of that uploader has exited; no worker is
\* left waiting on an empty queue that will get no sentinel.
C6_NoWorkerLeftWaiting ==
    [][(orch'.u # orch.u \/ (orch'.pc = "done" /\ orch.pc # "done")) => AllExited]_vars

\* C7: sentinels are posted only after the producer has returned and every
\* video has been taken and acknowledged; exactly N are posted; a worker exits
\* only by popping a sentinel, each sentinel ends one worker, no video stays on
\* the queue, and once the posting starts all N workers eventually exit.
C7_SentinelTermination ==
    /\ [][/\ orch'.posted = orch.posted + 1
             => /\ prod.pc = "returned"
                /\ Busy = {}
                /\ SentinelsQueued = Len(queue)
                /\ unfinished = orch.posted
          /\ \A w \in Workers :
                (workers'[w].pc = "exited" /\ workers[w].pc # "exited")
                => /\ queue # <<>>
                   /\ Head(queue) = Sentinel
                   /\ queue' = Tail(queue)]_vars
    /\ [](/\ orch.posted <= NWorkers
          /\ orch.pc \in {"gather", "sleep"} => orch.posted = NWorkers
          /\ Cardinality(Exited) + SentinelsQueued = orch.posted
          /\ AllExited => queue = <<>>)
    /\ (orch.pc = "sentinels") ~> AllExited

\* C7, witness: the uploader's listing was produced to its end, a video of it
\* is persisted, N sentinels were posted and every worker has exited.
C7_Witness ==
    /\ AllExited
    /\ orch.posted = NWorkers
    /\ prod.end = "complete"
    /\ 1 \in DOMAIN db.disk.videos

\* C8: a worker that has processed an item, with or without a failure,
\* acknowledges it once and waits for the next item; the queue's unfinished
\* count is exactly the items queued or in a worker's hands (plus the
\* sentinels, which are not acknowledged), so it is zero once the queue is
\* drained.
C8_AckEveryItem ==
    /\ [][\A w \in Workers :
            (workers[w].pc = "busy" /\ workers'[w] # workers[w])
            => /\ unfinished' = unfinished - 1
               /\ workers'[w].pc = "get"
               /\ queue' = queue]_vars
    /\ [](unfinished = Len(queue) + Cardinality(Busy) + Cardinality(Exited))

\* C8, witness: the most recent item raised in process_video, nothing was
\* persisted, and the queue is drained with every worker waiting for more.
C8_Witness ==
    /\ item_failed
    /\ orch.pc = "join_queue"
    /\ prod.end = "complete"
    /\ unfinished = 0
    /\ \A w \in Workers : workers[w].pc = "get"
    /\ DOMAIN db.disk.videos = {}

\* C9: after PageFetchExhaustedError on a page k >= 2 the producer has
\* returned and requests no further page; the orchestrator drains the queue,
\* posts the sentinels, joins the workers and goes to the next uploader through
\* the inter-uploader sleep, which it eventually does; persisted rows stay.
C9_ExhaustionAbortsOneUploader ==
    /\ [](prod.end = "exhausted" => prod.pc = "returned" /\ prod.page_num >= 2)
    /\ [][/\ prod.end = "exhausted"
             => /\ prod' # prod => (orch.pc = "start" /\ prod' = StartProducer)
                /\ orch'.u # orch.u
                      => /\ orch.pc = "sleep"
                         /\ AllExited
                         /\ queue = <<>>
                /\ (orch'.pc = "sentinels" /\ orch.pc # "sentinels")
                      => (unfinished = 0 /\ Busy = {} /\ queue = <<>>)
          /\ DOMAIN db.disk.videos \subseteq DOMAIN db'.disk.videos]_vars
    /\ (prod.end = "exhausted" /\ orch.pc = "await_producer" /\ orch.u < NUsers)
          ~> (orch.pc = "start")

\* C9, witness: page 2 of the first uploader was exhausted, the video of its
\* page 1 is persisted and the orchestrator is about to start the second uploader.
C9_Witness ==
    /\ prod.end = "exhausted"
    /\ prod.page_num = 2
    /\ orch = [pc |-> "start", u |-> 2, posted |-> NWorkers, switch_delay_count |-> -1]
    /\ 1 \in DOMAIN db.disk.videos

\* C21: uploaders are processed one after another.  The orchestrator leaves
\* an uploader for the next one only out of the inter-uploader sleep, which it
\* entered once, with the producer returned and every worker exited; the next
\* producer starts with no worker of the previous uploader still alive; and
\* the sleep is never entered after the last uploader.
C21_UploadersOneAfterAnother ==
    [][/\ orch'.u # orch.u
             => /\ orch.pc = "sleep"
                /\ orch'.u = orch.u + 1
                /\ prod.pc = "returned"
                /\ AllExited
       /\ (prod' = StartProducer /\ prod # StartProducer /\ orch.u > 1) => AllExited
       /\ orch'.pc = "sleep" => orch'.u < NUsers
       /\ (orch'.pc = "done" /\ orch.pc # "done") => (orch.pc # "sleep" /\ orch.u = NUsers)]_vars

\* C24: for every uploader, one whose page 1 failed included, the producer
\* writes the delay-policy state once, with the count page 1 reported, and the
\* orchestrator reads it after that write, when it enters the inter-uploader
\* sleep: the delay after an uploader is computed from that uploader's count.
C24_DelayStateOncePerUploader ==
    [][/\ last_user_video_count' # last_user_video_count
             => /\ prod.pc = "fetch" /\ prod.page_num = 1 /\ prod.total_videos = -1
                /\ last_user_video_count' = prod'.total_videos
       /\ (orch'.pc = "sleep" /\ orch.pc # "sleep")
             => /\ prod.total_videos # -1
                /\ orch'.switch_delay_count = prod.total_videos
       /\ orch'.switch_delay_count # orch.switch_delay_count
             => \/ orch'.pc = "sleep" /\ orch.pc # "sleep"
                \/ orch'.u # orch.u /\ orch'.switch_delay_count = -1]_vars

----------------------------------------------------------------------------

Init == InitPipeline

Next == NextPipeline

Spec == Init /\ [][Next]_vars

====
